---- MODULE Spec2Model ----
(***************************************************************************)
(* Verification model of the graph-sample encoding and batching pipeline   *)
(* of the repository (lib/gnn_handler, lib/RL) and of its model facade.    *)
(*                                                                         *)
(* Several specifications share the variables; each one exercises one      *)
(* part of the pipeline and leaves the variables of the others untouched:  *)
(*   Spec          the batch collator (graph_collate_fn and the            *)
(*                 concatenation loops of preprocess_for_onnx)             *)
(*   SpecEncode    the two per-file encoders (_nx_to_pyg of the training   *)
(*                 path, _parse_dot_bits/_parse_dot_ids of the ONNX path)  *)
(*   SpecFacade    the model facade: select_model, load_model,             *)
(*                 predict_single, try_onnx                                *)
(*   SpecNorm      the SCALAR_ID normalisation of the four encoders        *)
(*   SpecCkpt      DistanceEstimator: __init__, get_checkpoint, load_model *)
(***************************************************************************)
EXTENDS Integers, Sequences, FiniteSets, TLC

VARIABLES
    batch,      \* the ordered list of samples handed to the collator
    out,        \* the result of the collating operation that has run
    core,       \* the facade's model: its bit_input (None or a width)
    G,          \* the graph _load_dot returned for the file being encoded
    data,       \* the result of the training-time encoder on G
    parsed,     \* the result of the inference-time encoder on G
    pred,       \* the result of the facade operation that has run on G
    label,      \* the integer node label handed to a scalar encoder
    norm,       \* the value that encoder feeds to the first embedding layer
    estimator,  \* the DistanceEstimator that was constructed
    ckpt,       \* the checkpoint taken from it
    loaded,     \* the result of load_model on the checkpoint
    net,        \* the model a forward pass runs on, and its mode
    inputs,     \* the collated batch given to the forward pass
    fwd,        \* the result of the in-process forward pass
    onnx,       \* the result of the ONNX wrapper's forward pass
    exported,   \* the input contract to_onnx declared for the model
    sample,     \* the result of a sample builder, with the arguments given
    fs,         \* the files of the working directory
    procs,      \* the concurrent invocations of the prediction pipeline
    src,        \* the text of a DOT file on its way through a loader
    elabel,     \* the label of one edge as the two parsers resolve it
    dotfile,    \* the declarations of a DOT file and the graph loaded from it
    retry,      \* one instance in process_file_with_retries
    binding,    \* the dummy inputs of to_onnx as the wrapper receives them
    trainer,    \* a run of BaseModel.train
    optim,      \* the model facade: its model and its optimizer's parameters
    workers     \* the worker threads of the dataset script and their logs

collVars == <<batch, out>>
encVars == <<core, G, data, parsed, pred>>
normVars == <<label, norm>>
ckptVars == <<estimator, ckpt, loaded>>
fwdVars == <<net, inputs, fwd, onnx>>
\* the variables of the specifications that follow SpecCkpt
expVars == <<exported>>
smpVars == <<sample>>
conVars == <<fs, procs>>
txtVars == <<src>>
\* the variables of the specifications that follow SpecText
extVars == <<elabel, dotfile, retry, binding, trainer, optim, workers>>
restVars == <<fwdVars, expVars, smpVars, conVars, txtVars, extVars>>
\* the variables of the other specifications, as an action of one of them
\* leaves them alone
fwdOthers == <<expVars, smpVars, conVars, txtVars, extVars>>
expOthers == <<fwdVars, smpVars, conVars, txtVars, extVars>>
smpOthers == <<fwdVars, expVars, conVars, txtVars, extVars>>
conOthers == <<fwdVars, expVars, smpVars, txtVars, extVars>>
txtOthers == <<fwdVars, expVars, smpVars, conVars, extVars>>
\* all variables of the specifications up to SpecText
coreVars == <<collVars, encVars, normVars, ckptVars, fwdVars, expVars,
              smpVars, conVars, txtVars>>
vars == <<batch, out, core, G, data, parsed, pred, label, norm,
          estimator, ckpt, loaded, net, inputs, fwd, onnx, exported,
          sample, fs, procs, src, elabel, dotfile, retry, binding, trainer,
          optim, workers>>

(***************************************************************************)
(* Python's None.  An optional value is a sequence of length at most one:  *)
(* Absent is None, Given(v) is the value v.  NoError is the None of an     *)
(* error field, whose values are the names of the exceptions raised.       *)
(***************************************************************************)
Absent == <<>>
Given(v) == <<v>>
NoError == "None"
\* the marker of an operation that has not run
NotRun == [op |-> "none"]
\* no file has been loaded
NoGraph == [nodes |-> <<>>, bit_len |-> Absent, edges |-> <<>>]

\* the variables of the other specifications, before anything ran
CollIdle == batch = <<>> /\ out = NotRun
EncIdle ==
    /\ core = Absent /\ G = NoGraph
    /\ data = NotRun /\ parsed = NotRun /\ pred = NotRun
NormIdle == label = <<>> /\ norm = NotRun
CkptIdle == estimator = NotRun /\ ckpt = NotRun /\ loaded = NotRun
FwdIdle == net = NotRun /\ inputs = NotRun /\ fwd = NotRun /\ onnx = NotRun
ExpIdle == exported = NotRun
SmpIdle == sample = NotRun
ConIdle == fs = NotRun /\ procs = NotRun
TxtIdle == src = NotRun
ExtIdle ==
    /\ elabel = NotRun /\ dotfile = NotRun /\ retry = NotRun
    /\ binding = NotRun /\ trainer = NotRun /\ optim = NotRun
    /\ workers = NotRun
RestIdle == FwdIdle /\ ExpIdle /\ SmpIdle /\ ConIdle /\ TxtIdle /\ ExtIdle

(***************************************************************************)
(* Bounds of the model.                                                    *)
(***************************************************************************)
MaxBatch == 3
MaxNodes == 2
\* edge counts of the graphs drawn as input (zero edges included)
EdgeCounts == {0, 2}
\* depth and target values of the samples drawn as input
DepthValues == {5}
TargetValues == {1}

(***************************************************************************)
(* Graph tensors.  A graph tensor is what from_networkx plus _nx_to_pyg    *)
(* (or _parse_dot_ids / _parse_dot_bits) return for one file: the node     *)
(* feature rows in G.nodes() order, edge_index as zero-based column pairs  *)
(* in G.edges() order, and one edge_attr row per edge.                     *)
(***************************************************************************)
Graph(n, e) ==
    [num_nodes  |-> n,
     node_names |-> [k \in 1..n |-> k - 1],
     edge_index |-> [j \in 1..e |-> <<(j - 1) % n, j % n>>],
     edge_attr  |-> [j \in 1..e |-> j]]

StateGraphs == {Graph(n, e) : n \in 1..MaxNodes, e \in EdgeCounts}

\* goal graphs have their own node counts, different from the state's; one
\* has an edge that does not touch its last node, one has no edge at all
GoalGraphs == {Graph(MaxNodes + 1, e) : e \in {0, 1}}

(***************************************************************************)
(* Samples are Python dicts: a function whose domain is the set of keys    *)
(* present.  preprocess_sample always sets "state_graph" and sets "depth", *)
(* "target" and "goal_graph" only when the argument is given.              *)
(***************************************************************************)
MkSample(sg, depth, target, gg) ==
    LET base == [k \in {"state_graph"} |-> sg]
        d == IF depth = Absent THEN base
             ELSE [k \in DOMAIN base \cup {"depth"} |->
                     IF k = "depth" THEN <<depth[1]>> ELSE base[k]]
        t == IF target = Absent THEN d
             ELSE [k \in DOMAIN d \cup {"target"} |->
                     IF k = "target" THEN <<target[1]>> ELSE d[k]]
    IN  IF gg = Absent THEN t
        ELSE [k \in DOMAIN t \cup {"goal_graph"} |->
                IF k = "goal_graph" THEN gg[1] ELSE t[k]]

SampleChoices ==
    {MkSample(sg, Absent, Absent, Absent) : sg \in StateGraphs}
    \cup
    {MkSample(Graph(n, 2), Absent, Absent, Given(g)) :
        n \in 1..MaxNodes, g \in GoalGraphs}
    \cup
    {MkSample(Graph(1, 0), d, t, Absent) :
        d \in {Given(v) : v \in DepthValues} \cup {Absent},
        t \in {Given(v) : v \in TargetValues} \cup {Absent}}

(***************************************************************************)
(* Tensor helpers.                                                         *)
(***************************************************************************)
\* e_idx + cum : every entry of a [2,E] index tensor incremented
AddOffset_Twice(e_idx, cum) ==
    [j \in 1..Len(e_idx) |-> <<e_idx[j][1] + 2 * cum, e_idx[j][2] + 2 * cum>>]

AddOffset(e_idx, cum) ==
    [j \in 1..Len(e_idx) |-> <<e_idx[j][1] + cum, e_idx[j][2] + cum>>]

\* torch.full((n,), v)
Full(n, v) == [k \in 1..n |-> v]

EmptyCat == [nodes |-> <<>>, edge_index |-> <<>>, edge_attr |-> <<>>,
             batch |-> <<>>]

(***************************************************************************)
(* Batch.from_data_list (torch_geometric), as graph_collate_fn uses it:    *)
(* node rows concatenated, edge_index incremented by the running node      *)
(* count (the num_nodes of the earlier graphs), batch = i repeated         *)
(* num_nodes times.                                                        *)
(***************************************************************************)
RECURSIVE FromDataListLoop(_, _, _, _)
FromDataListLoop(data_list, i, cum, acc) ==
    IF i > Len(data_list) THEN acc
    ELSE LET g == data_list[i] IN
         FromDataListLoop(data_list, i + 1, cum + g.num_nodes,
            [nodes      |-> acc.nodes \o g.node_names,
             edge_index |-> acc.edge_index \o AddOffset(g.edge_index, cum),
             edge_attr  |-> acc.edge_attr \o g.edge_attr,
             batch      |-> acc.batch \o Full(g.num_nodes, i - 1)])

FromDataList(data_list) == FromDataListLoop(data_list, 1, 0, EmptyCat)

\* [b[key] for b in batch]: a KeyError when some sample lacks the key
HasAll(b, key) == \A i \in 1..Len(b) : key \in DOMAIN b[i]
Column(b, key) == [i \in 1..Len(b) |-> b[i][key]]

\* torch.stack of length-1 tensors: a [B,1] tensor
Stack(col) == col

(***************************************************************************)
(* graph_collate_fn: every optional entry is decided by batch[0] alone.    *)
(***************************************************************************)
CollateUsesKey(b, key) == key \in DOMAIN b[1]

graph_collate_fn(b) ==
    IF Len(b) = 0 THEN [op |-> "graph_collate_fn", error |-> "IndexError"]
    ELSE IF \E key \in {"goal_graph", "depth", "target"} :
                CollateUsesKey(b, key) /\ ~HasAll(b, key)
    THEN [op |-> "graph_collate_fn", error |-> "KeyError"]
    ELSE LET collated ==
               [op          |-> "graph_collate_fn",
                error       |-> NoError,
                state_graph |-> FromDataList(Column(b, "state_graph")),
                goal_graph  |-> IF CollateUsesKey(b, "goal_graph")
                                THEN Given(FromDataList(Column(b, "goal_graph")))
                                ELSE Absent,
                depth       |-> IF CollateUsesKey(b, "depth")
                                THEN Given(Stack(Column(b, "depth")))
                                ELSE Absent]
         IN  IF CollateUsesKey(b, "target")
             THEN [k \in DOMAIN collated \cup {"target"} |->
                     IF k = "target" THEN Stack(Column(b, "target"))
                     ELSE collated[k]]
             ELSE collated

(***************************************************************************)
(* preprocess_for_onnx (lib/gnn_handler): the concatenation loops.  A file *)
(* is represented by the tensors _parse_dot_bits / _parse_dot_ids return   *)
(* for it: (n_feat, e_idx, e_attr) = (node_names, edge_index, edge_attr).  *)
(***************************************************************************)
\* "if e_idx.numel() > 0: e_idx = e_idx + cum_state"
OnnxOffset_NoShift(e_idx, cum) == e_idx

OnnxOffset(e_idx, cum) ==
    IF Len(e_idx) > 0 THEN AddOffset(e_idx, cum) ELSE e_idx

\* "s_batch.append(torch.full((n_feat.size(0),), g_idx, dtype=torch.int64))"
OnnxBatchOf_FromOne(n_feat, g_idx) == Full(Len(n_feat), g_idx + 1)

OnnxBatchOf(n_feat, g_idx) == Full(Len(n_feat), g_idx)

RECURSIVE OnnxLoop(_, _, _, _)
OnnxLoop(files, i, cum, acc) ==
    IF i > Len(files) THEN acc
    ELSE LET n_feat == files[i].node_names
             e_idx  == OnnxOffset(files[i].edge_index, cum)
             e_attr == files[i].edge_attr
         IN  OnnxLoop(files, i + 1, cum + Len(n_feat),
                [nodes      |-> acc.nodes \o n_feat,
                 edge_index |-> acc.edge_index \o e_idx,
                 edge_attr  |-> acc.edge_attr \o e_attr,
                 batch      |-> acc.batch \o OnnxBatchOf(n_feat, i - 1)])

\* "cum_goal = 0": the goal loop counts its own nodes
GoalCumStart_Shared(cum_state) == cum_state

GoalCumStart(cum_state) == 0

\* total node count after the state loop ("cum_state")
RECURSIVE SumNodes(_, _)
SumNodes(files, i) ==
    IF i > Len(files) THEN 0
    ELSE Len(files[i].node_names) + SumNodes(files, i + 1)

\* edge_index.max() >= N, for a non-empty edge_index
EdgeOutOfRange(edge_index, N) ==
    /\ Len(edge_index) > 0
    /\ \E j \in 1..Len(edge_index) :
          edge_index[j][1] >= N \/ edge_index[j][2] >= N

\* a dict built key by key: the keys of d plus those of e
Update(d, e) ==
    [k \in DOMAIN d \cup DOMAIN e |-> IF k \in DOMAIN e THEN e[k] ELSE d[k]]

preprocess_for_onnx(state_dot_files, depths, goal_dot_files, bitmask) ==
    LET s == OnnxLoop(state_dot_files, 1, 0, EmptyCat)
        cum_state == SumNodes(state_dot_files, 1)
        g == IF goal_dot_files = Absent THEN EmptyCat
             ELSE OnnxLoop(goal_dot_files[1], 1, GoalCumStart(cum_state), EmptyCat)
        nodes_key == IF bitmask THEN "node_bits" ELSE "node_ids"
        state_part ==
            [k \in {"state_" \o nodes_key, "state_edge_index",
                    "state_edge_attr", "state_batch"} |->
                CASE k = "state_edge_index" -> s.edge_index
                  [] k = "state_edge_attr"  -> s.edge_attr
                  [] k = "state_batch"      -> s.batch
                  [] OTHER                  -> s.nodes]
        depth_part ==
            IF depths = Absent THEN state_part
            ELSE Update(state_part, [k \in {"depth"} |-> depths[1]])
        goal_part ==
            IF goal_dot_files = Absent THEN depth_part
            ELSE Update(depth_part,
                    [k \in {"goal_" \o nodes_key, "goal_edge_index",
                            "goal_edge_attr", "goal_batch"} |->
                        CASE k = "goal_edge_index" -> g.edge_index
                          [] k = "goal_edge_attr"  -> g.edge_attr
                          [] k = "goal_batch"      -> g.batch
                          [] OTHER                 -> g.nodes])
    IN  IF depths # Absent /\ Len(depths[1]) # Len(state_dot_files)
        THEN [op |-> "preprocess_for_onnx", error |-> "ValueError"]
        ELSE IF EdgeOutOfRange(s.edge_index, Len(s.nodes))
        THEN [op |-> "preprocess_for_onnx", error |-> "ValueError"]
        ELSE IF goal_dot_files # Absent
                /\ EdgeOutOfRange(g.edge_index, Len(g.nodes))
        THEN [op |-> "preprocess_for_onnx", error |-> "ValueError"]
        ELSE [op |-> "preprocess_for_onnx", error |-> NoError,
              bitmask |-> bitmask, feed |-> goal_part]

(***************************************************************************)
(* preprocess_for_onnx (lib/RL): the same loops without the numel() guard, *)
(* torch.cat without a fallback for an empty list, "if depths:" instead of *)
(* "is not None", other key names and no range check.                      *)
(***************************************************************************)
RECURSIVE RL_OnnxLoop(_, _, _, _)
RL_OnnxLoop(files, i, cum, acc) ==
    IF i > Len(files) THEN acc
    ELSE LET n_id == files[i].node_names IN
         RL_OnnxLoop(files, i + 1, cum + Len(n_id),
            [nodes      |-> acc.nodes \o n_id,
             edge_index |-> acc.edge_index \o AddOffset(files[i].edge_index, cum),
             edge_attr  |-> acc.edge_attr \o files[i].edge_attr,
             batch      |-> acc.batch \o Full(Len(n_id), i - 1)])

RL_preprocess_for_onnx(state_dot_files, depths, goal_dot_files) ==
    LET s == RL_OnnxLoop(state_dot_files, 1, 0, EmptyCat)
        g == IF goal_dot_files = Absent THEN EmptyCat
             ELSE RL_OnnxLoop(goal_dot_files[1], 1, 0, EmptyCat)
        state_part ==
            [k \in {"state_node_names", "state_edge_index",
                    "state_edge_attr", "state_batch"} |->
                CASE k = "state_edge_index" -> s.edge_index
                  [] k = "state_edge_attr"  -> s.edge_attr
                  [] k = "state_batch"      -> s.batch
                  [] OTHER                  -> s.nodes]
        truthy == depths # Absent /\ Len(depths[1]) > 0
        depth_part ==
            IF truthy THEN Update(state_part, [k \in {"depth"} |-> depths[1]])
            ELSE state_part
        goal_part ==
            IF goal_dot_files = Absent THEN depth_part
            ELSE Update(depth_part,
                    [k \in {"goal_node_names", "goal_edge_index",
                            "goal_edge_attr", "goal_batch"} |->
                        CASE k = "goal_edge_index" -> g.edge_index
                          [] k = "goal_edge_attr"  -> g.edge_attr
                          [] k = "goal_batch"      -> g.batch
                          [] OTHER                 -> g.nodes])
    IN  IF Len(state_dot_files) = 0
        THEN [op |-> "RL_preprocess_for_onnx", error |-> "RuntimeError"]
        ELSE IF truthy /\ Len(depths[1]) # Len(state_dot_files)
        THEN [op |-> "RL_preprocess_for_onnx", error |-> "ValueError"]
        ELSE IF goal_dot_files # Absent /\ Len(goal_dot_files[1]) = 0
        THEN [op |-> "RL_preprocess_for_onnx", error |-> "RuntimeError"]
        ELSE [op |-> "RL_preprocess_for_onnx", error |-> NoError,
              bitmask |-> FALSE, feed |-> goal_part]

(***************************************************************************)
(* The arguments a caller of try_onnx passes for the samples of a batch:   *)
(* the state files in order, the goal files that exist (None when there is *)
(* none) and the depths that exist (None when there is none).              *)
(***************************************************************************)
RECURSIVE Present(_, _, _)
Present(b, key, i) ==
    IF i > Len(b) THEN <<>>
    ELSE IF key \in DOMAIN b[i] THEN <<b[i][key]>> \o Present(b, key, i + 1)
    ELSE Present(b, key, i + 1)

StateFiles(b) == Column(b, "state_graph")

GoalFiles(b) ==
    IF Present(b, "goal_graph", 1) = <<>> THEN Absent
    ELSE Given(Present(b, "goal_graph", 1))

Depths(b) ==
    LET ds == Present(b, "depth", 1) IN
    IF ds = <<>> THEN Absent ELSE Given([i \in 1..Len(ds) |-> ds[i][1]])

(***************************************************************************)
(* Spec: the batch collator.                                               *)
(***************************************************************************)
Init ==
    /\ batch = <<>>
    /\ out = NotRun
    /\ EncIdle /\ NormIdle /\ CkptIdle /\ RestIdle

\* one more sample is put on the list (a dataset item, a file of try_onnx)
Submit ==
    /\ out = NotRun
    /\ Len(batch) < MaxBatch
    /\ \E s \in SampleChoices : batch' = Append(batch, s)
    /\ UNCHANGED <<out, encVars, normVars, ckptVars, restVars>>

Collate ==
    /\ out = NotRun
    /\ out' = graph_collate_fn(batch)
    /\ UNCHANGED <<batch, encVars, normVars, ckptVars, restVars>>

PreprocessForOnnx ==
    /\ out = NotRun
    /\ \E bitmask \in BOOLEAN :
          out' = preprocess_for_onnx(StateFiles(batch), Depths(batch),
                                     GoalFiles(batch), bitmask)
    /\ UNCHANGED <<batch, encVars, normVars, ckptVars, restVars>>

RL_PreprocessForOnnx ==
    /\ out = NotRun
    /\ out' = RL_preprocess_for_onnx(StateFiles(batch), Depths(batch),
                                     GoalFiles(batch))
    /\ UNCHANGED <<batch, encVars, normVars, ckptVars, restVars>>

Next ==
    \/ Submit
    \/ Collate
    \/ PreprocessForOnnx
    \/ RL_PreprocessForOnnx

Spec == Init /\ [][Next]_vars

(***************************************************************************)
(* What the claims about collation speak of: the combined tensors of a     *)
(* result, the graphs they were built from, and the offsets stated in      *)
(* closed form.                                                            *)
(***************************************************************************)
Succeeded(o) == o.op # "none" /\ o.error = NoError

IsOnnx(o) == o.op \in {"preprocess_for_onnx", "RL_preprocess_for_onnx"}

NodesKey(o) ==
    IF o.op = "RL_preprocess_for_onnx" THEN "node_names"
    ELSE IF o.bitmask THEN "node_bits" ELSE "node_ids"

FeedPart(o, side) ==
    [nodes      |-> o.feed[side \o "_" \o NodesKey(o)],
     edge_index |-> o.feed[side \o "_edge_index"],
     edge_attr  |-> o.feed[side \o "_edge_attr"],
     batch      |-> o.feed[side \o "_batch"]]

CombinedState(o) == IF IsOnnx(o) THEN FeedPart(o, "state") ELSE o.state_graph

HasCombinedGoal(o) ==
    IF IsOnnx(o) THEN "goal_batch" \in DOMAIN o.feed ELSE o.goal_graph # Absent

CombinedGoal(o) == IF IsOnnx(o) THEN FeedPart(o, "goal") ELSE o.goal_graph[1]

\* the goal graphs a result with a combined goal was built from
GoalSources(o) ==
    IF IsOnnx(o) THEN GoalFiles(batch)[1] ELSE Column(batch, "goal_graph")

RECURSIVE NodeOffset(_, _)
NodeOffset(gs, i) ==
    IF i = 1 THEN 0 ELSE NodeOffset(gs, i - 1) + gs[i - 1].num_nodes

RECURSIVE EdgeOffset(_, _)
EdgeOffset(gs, i) ==
    IF i = 1 THEN 0 ELSE EdgeOffset(gs, i - 1) + Len(gs[i - 1].edge_index)

TotalNodes(gs) == NodeOffset(gs, Len(gs) + 1)

OffsetRoundTrip(comb, gs) ==
    /\ Len(comb.edge_index) = EdgeOffset(gs, Len(gs) + 1)
    /\ \A k \in 1..Len(comb.edge_index) :
          /\ comb.edge_index[k][1] < TotalNodes(gs)
          /\ comb.edge_index[k][2] < TotalNodes(gs)
    /\ \A i \in 1..Len(gs) : \A j \in 1..Len(gs[i].edge_index) :
          LET c == comb.edge_index[EdgeOffset(gs, i) + j] IN
          <<c[1] - NodeOffset(gs, i), c[2] - NodeOffset(gs, i)>>
              = gs[i].edge_index[j]

BatchMembership(comb, gs) ==
    /\ Len(comb.batch) = TotalNodes(gs)
    /\ \A p \in 1..(Len(comb.batch) - 1) : comb.batch[p] <= comb.batch[p + 1]
    /\ \A i \in 1..Len(gs) :
          /\ Cardinality({p \in 1..Len(comb.batch) : comb.batch[p] = i - 1})
                = gs[i].num_nodes
          /\ \A p \in 1..Len(comb.batch) :
                comb.batch[p] = i - 1
                    <=> (NodeOffset(gs, i) < p
                         /\ p <= NodeOffset(gs, i) + gs[i].num_nodes)

EdgesStayInside(comb, gs) ==
    \A i \in 1..Len(gs) : \A j \in 1..Len(gs[i].edge_index) :
        LET c == comb.edge_index[EdgeOffset(gs, i) + j] IN
        \A x \in {c[1], c[2]} :
            /\ NodeOffset(gs, i) <= x
            /\ x < NodeOffset(gs, i) + gs[i].num_nodes
            /\ x + 1 \in 1..Len(comb.batch)
            /\ comb.batch[x + 1] = i - 1

\* C1: collating any ordered list of samples (graph_collate_fn, and the
\* concatenation of both preprocess_for_onnx) yields a combined edge_index
\* all of whose values are below the total node count, and whose columns
\* contributed by sample i, minus the node count of the samples before i,
\* are sample i's edge_index in the original column order; samples with no
\* edge included.
Inv_C1_OffsetRoundTrip ==
    Succeeded(out) =>
        /\ OffsetRoundTrip(CombinedState(out), Column(batch, "state_graph"))
        /\ HasCombinedGoal(out) =>
              OffsetRoundTrip(CombinedGoal(out), GoalSources(out))

\* three files concatenated by preprocess_for_onnx, the middle one without
\* edges and the last one with edges
Witness_C1 ==
    /\ out.op = "preprocess_for_onnx"
    /\ out.error = NoError
    /\ Len(batch) >= 3
    /\ Len(batch[1].state_graph.edge_index) > 0
    /\ Len(batch[2].state_graph.edge_index) = 0
    /\ Len(batch[3].state_graph.edge_index) > 0
    /\ batch[1].state_graph.num_nodes # batch[2].state_graph.num_nodes

\* C2: the batch-membership vector of a collated batch has the length of
\* the total node count, is non-decreasing, and holds for every sample i
\* exactly n_i entries equal to i, contiguous and in submission order.
Inv_C2_BatchMembership ==
    Succeeded(out) =>
        /\ BatchMembership(CombinedState(out), Column(batch, "state_graph"))
        /\ HasCombinedGoal(out) =>
              BatchMembership(CombinedGoal(out), GoalSources(out))

\* three samples of different node counts collated by graph_collate_fn
Witness_C2 ==
    /\ out.op = "graph_collate_fn"
    /\ out.error = NoError
    /\ Len(batch) >= 3
    /\ batch[1].state_graph.num_nodes > 1
    /\ batch[2].state_graph.num_nodes # batch[1].state_graph.num_nodes
    /\ Len(out.state_graph.batch) > 3

\* C3: no edge of a combined edge_index leaves its own sub-graph: both ends
\* of every column contributed by sample i lie in [offset_i, offset_i + n_i)
\* and carry the batch value i; for the state and for the goal graphs, whose
\* offsets are accumulated independently.
Inv_C3_EdgesStayInside ==
    Succeeded(out) =>
        /\ EdgesStayInside(CombinedState(out), Column(batch, "state_graph"))
        /\ HasCombinedGoal(out) =>
              EdgesStayInside(CombinedGoal(out), GoalSources(out))

\* state and goal graphs of different sizes concatenated by
\* preprocess_for_onnx, the second goal graph's edges offset by the first's
Witness_C3 ==
    /\ out.op = "preprocess_for_onnx"
    /\ out.error = NoError
    /\ Len(batch) >= 2
    /\ "goal_batch" \in DOMAIN out.feed
    /\ Len(GoalFiles(batch)[1]) >= 2
    /\ "goal_graph" \in DOMAIN batch[1]
    /\ batch[1].state_graph.num_nodes # batch[1].goal_graph.num_nodes
    /\ Len(batch[2].state_graph.edge_index) > 0
    /\ Len(out.feed["goal_edge_index"]) >= 2

\* C9: graph_collate_fn omits the combined goal batch only when no sample
\* has a goal graph, and fails whenever some samples have one and others do
\* not, wherever in the list the sample that differs stands.
Inv_C9_MixedGoalFailsFast ==
    out.op = "graph_collate_fn" =>
        LET has == {i \in 1..Len(batch) : "goal_graph" \in DOMAIN batch[i]}
        IN  /\ (out.error = NoError /\ out.goal_graph = Absent) => has = {}
            /\ (has # {} /\ has # 1..Len(batch)) => out.error # NoError

(***************************************************************************)
(* Numbers.  A Python int is unbounded: a natural number is kept as its    *)
(* binary digits, least significant first, without leading zeros (0 is     *)
(* the empty sequence); an int is a sign and a magnitude.                  *)
(***************************************************************************)
Max(S) == CHOOSE m \in S : \A x \in S : x <= m

Min(S) == CHOOSE m \in S : \A x \in S : m <= x

Norm(a) ==
    LET ones == {i \in 1..Len(a) : a[i] = 1}
    IN  IF ones = {} THEN <<>> ELSE SubSeq(a, 1, Max(ones))

Zeros(n) == [k \in 1..n |-> 0]

Digit(a, i) == IF i <= Len(a) THEN a[i] ELSE 0

\* a + b + c from digit i on, c being the carry into digit i
RECURSIVE AddFrom(_, _, _, _)
AddFrom(a, b, i, c) ==
    IF i > Len(a) /\ i > Len(b) THEN (IF c = 0 THEN <<>> ELSE <<c>>)
    ELSE LET t == Digit(a, i) + Digit(b, i) + c
         IN  <<t % 2>> \o AddFrom(a, b, i + 1, t \div 2)

AddNat(a, b) == Norm(AddFrom(a, b, 1, 0))

\* a + 1: the digits below the lowest 0 are cleared and that 0 is set
Increment(a) ==
    LET z == Min({i \in 1..(Len(a) + 1) : Digit(a, i) = 0})
    IN  [i \in 1..(IF z > Len(a) THEN z ELSE Len(a)) |->
            IF i < z THEN 0 ELSE IF i = z THEN 1 ELSE a[i]]

RECURSIVE NatOf(_)
NatOf(n) == IF n = 0 THEN <<>> ELSE <<n % 2>> \o NatOf(n \div 2)

\* the value of a natural number of at most 30 binary digits
RECURSIVE SmallValue(_)
SmallValue(a) == IF a = <<>> THEN 0 ELSE a[1] + 2 * SmallValue(Tail(a))

RECURSIVE Pow2(_)
Pow2(n) == IF n = 0 THEN 1 ELSE 2 * Pow2(n - 1)

\* the multiplications of int(text) are done on 15-bit limbs, least
\* significant first, and the result is spelled out in binary digits
BigLimbBits == 15
BigLimbBase == 32768

\* a * m + c for small m and c
RECURSIVE MulAddFrom(_, _, _, _)
MulAddFrom(a, m, i, c) ==
    IF i > Len(a) THEN (IF c = 0 THEN <<>> ELSE <<c>>)
    ELSE LET t == a[i] * m + c
         IN  <<t % BigLimbBase>> \o MulAddFrom(a, m, i + 1, t \div BigLimbBase)

MulAdd(a, m, c) == MulAddFrom(a, m, 1, c)

NatOfLimbs(a) ==
    Norm([k \in 1..(Len(a) * BigLimbBits) |->
            (a[((k - 1) \div BigLimbBits) + 1]
                \div Pow2((k - 1) % BigLimbBits)) % 2])

PyInt(neg, mag) == [neg |-> neg /\ mag # <<>>, mag |-> mag]

(***************************************************************************)
(* IEEE-754 rounding to nearest, ties to even.  RoundNat keeps the p most  *)
(* significant binary digits of a natural number.  A float is              *)
(* (-1)^neg * m * 2^e with m odd (m = 0, e = 0 for zero), or an infinity.  *)
(***************************************************************************)
RoundNat(a, p) ==
    LET L == Len(a) IN
    IF L <= p THEN a
    ELSE LET top    == SubSeq(a, L - p + 1, L)
             guard  == a[L - p]
             sticky == \E k \in 1..(L - p - 1) : a[k] = 1
             up     == guard = 1 /\ (sticky \/ top[1] = 1)
         IN  Zeros(L - p) \o (IF up THEN Increment(top) ELSE top)

TrailingZeros(a) ==
    IF a = <<>> THEN 0 ELSE Min({i \in 1..Len(a) : a[i] = 1}) - 1

Float(neg, m, e) == [neg |-> neg, inf |-> FALSE, m |-> m, e |-> e]

Infinity(neg) == [neg |-> neg, inf |-> TRUE, m |-> 0, e |-> 0]

\* the float whose value is the natural number a, a having at most
\* SignificandBits significant digits
FloatOfRounded(neg, a) ==
    LET tz == TrailingZeros(a) IN
    IF a = <<>> THEN Float(FALSE, 0, 0)
    ELSE Float(neg, SmallValue(SubSeq(a, tz + 1, Len(a))), tz)

\* torch.float32: 24 significant binary digits, largest exponent 127
SignificandBits == 24
MaxExponent == 127
\* Python float (a double): 53 significant binary digits
DoubleBits == 53

\* an int64 tensor converted to float32: one rounding
Int64ToFloat32(i) ==
    LET r == RoundNat(i.mag, SignificandBits) IN
    IF Len(r) > MaxExponent + 1 THEN Infinity(i.neg)
    ELSE FloatOfRounded(i.neg, r)

\* a Python int stored in a float32 tensor: it is first made a double
\* (float(int(x)), or the conversion torch.tensor applies to a Python int)
PyIntToFloat32(i) ==
    LET r == RoundNat(RoundNat(i.mag, DoubleBits), SignificandBits) IN
    IF Len(r) > MaxExponent + 1 THEN Infinity(i.neg)
    ELSE FloatOfRounded(i.neg, r)

\* the natural number a float with e >= 0 stands for
NatOfFloat(f) == Norm(Zeros(f.e) \o NatOf(f.m))

(***************************************************************************)
(* torch.int64: 64 binary digits kept as four 16-bit limbs, least          *)
(* significant first; arithmetic wraps modulo 2^64 and the top digit is    *)
(* the sign.                                                               *)
(***************************************************************************)
LimbBits == 16
LimbBase == 65536
Limbs == 4

Int64Zero == [k \in 1..Limbs |-> 0]

\* 2 ** p as an int64: the digit p if there is one, 0 once it is shifted out
Int64Pow2(p) ==
    [k \in 1..Limbs |->
        IF p \div LimbBits = k - 1 THEN Pow2(p % LimbBits) ELSE 0]

RECURSIVE Int64AddFrom(_, _, _, _)
Int64AddFrom(a, b, k, c) ==
    IF k > Limbs THEN <<>>
    ELSE LET t == a[k] + b[k] + c
         IN  <<t % LimbBase>> \o Int64AddFrom(a, b, k + 1, t \div LimbBase)

Int64Add(a, b) == Int64AddFrom(a, b, 1, 0)

\* a 0/1 entry times an int64
Int64Times01(bit, w) == IF bit = 1 THEN w ELSE Int64Zero

Int64Digits(a) ==
    [k \in 1..(Limbs * LimbBits) |->
        (a[((k - 1) \div LimbBits) + 1] \div Pow2((k - 1) % LimbBits)) % 2]

Int64Negate(a) ==
    Int64Add([k \in 1..Limbs |-> LimbBase - 1 - a[k]], Int64Pow2(0))

\* the Python int an int64 stands for (two's complement)
Int64Value(a) ==
    IF a[Limbs] >= LimbBase \div 2
    THEN PyInt(TRUE, Norm(Int64Digits(Int64Negate(a))))
    ELSE PyInt(FALSE, Norm(Int64Digits(a)))

(***************************************************************************)
(* Text.  A str is the sequence of its characters.                         *)
(***************************************************************************)
Digits == <<"0", "1", "2", "3", "4", "5", "6", "7", "8", "9">>

IsDigit(c) == \E d \in 1..Len(Digits) : Digits[d] = c

DigitOf(c) == (CHOOSE d \in 1..Len(Digits) : Digits[d] = c) - 1

Whitespace == {" "}

Quote == "\""

RECURSIVE LStrip(_, _)
LStrip(s, cs) ==
    IF s # <<>> /\ s[1] \in cs THEN LStrip(Tail(s), cs) ELSE s

RECURSIVE RStrip(_, _)
RStrip(s, cs) ==
    IF s # <<>> /\ s[Len(s)] \in cs THEN RStrip(SubSeq(s, 1, Len(s) - 1), cs)
    ELSE s

\* str.strip(chars)
Strip(s, cs) == RStrip(LStrip(s, cs), cs)

\* str.replace(c, "")
Remove(s, c) == SelectSeq(s, LAMBDA x : x # c)

\* the value of the decimal digits lo..hi of s, at most ChunkDigits of them
ChunkDigits == 4

RECURSIVE ChunkValue(_, _, _)
ChunkValue(s, lo, hi) ==
    IF hi < lo THEN 0
    ELSE ChunkValue(s, lo, hi - 1) * Len(Digits) + DigitOf(s[hi])

RECURSIVE Pow10(_)
Pow10(k) == IF k = 0 THEN 1 ELSE Len(Digits) * Pow10(k - 1)

\* the value of the first i decimal digits of s, a chunk at a time
RECURSIVE ParseDigits(_, _)
ParseDigits(s, i) ==
    IF i = 0 THEN <<>>
    ELSE LET k == IF i % ChunkDigits = 0 THEN ChunkDigits ELSE i % ChunkDigits
         IN  MulAdd(ParseDigits(s, i - k), Pow10(k), ChunkValue(s, i - k + 1, i))

\* int(text): surrounding whitespace and a sign are allowed, the rest is
\* decimal digits; anything else raises ValueError
int_of_str(text) ==
    LET t    == Strip(text, Whitespace)
        sign == t # <<>> /\ t[1] \in {"-", "+"}
        body == IF sign THEN Tail(t) ELSE t
    IN  IF body = <<>> \/ \E i \in 1..Len(body) : ~IsDigit(body[i])
        THEN [error |-> "ValueError"]
        ELSE [error |-> NoError,
              value |-> PyInt(sign /\ t[1] = "-",
                             NatOfLimbs(ParseDigits(body, Len(body))))]

\* format(n, "0{width}b"): the binary digits of n, most significant first,
\* padded with zeros on the left up to width; never shortened
FormatBinary(n, width) ==
    LET d == IF n = 0 THEN <<0>> ELSE NatOf(n)
        pad == IF Len(d) < width THEN width - Len(d) ELSE 0
    IN  Zeros(pad) \o [k \in 1..Len(d) |-> d[Len(d) + 1 - k]]

(***************************************************************************)
(* The graph _load_dot returns: its nodes in iteration order, each a label *)
(* (a str, a list/tuple, or an int), the graph attribute bit_len if set,   *)
(* and its edges (u, v, label text if the edge has one).                   *)
(***************************************************************************)
StrLabel(chars) == [kind |-> "str", s |-> chars]

SeqLabel(items) == [kind |-> "seq", items |-> items]

IntLabel(n) == [kind |-> "int", n |-> n]

Raise(op, bitmask, exc) == [op |-> op, bitmask |-> bitmask, error |-> exc]

\* d["edge_label"] = int(str(d.get("label", "0")).replace('"', "")) in
\* _nx_to_pyg, int(str(d.get("label", "0")).strip('"')) in _parse_dot_*
LabelText(d) == IF d.label = Absent THEN <<"0">> ELSE d.label[1]

CleanLabel(t, method) ==
    IF method = "replace" THEN Remove(t, Quote) ELSE Strip(t, {Quote})

\* the edge labels in order; the first failure raises
EdgeLabels(Gx, method) ==
    [j \in 1..Len(Gx.edges) |->
        int_of_str(CleanLabel(LabelText(Gx.edges[j]), method))]

EdgeLabelsFail(Gx, method) ==
    \E j \in 1..Len(Gx.edges) : EdgeLabels(Gx, method)[j].error # NoError

\* from_networkx: edge_index [2,E] and edge_label, then .view(-1, 1).float()
EdgeIndex(Gx) == [j \in 1..Len(Gx.edges) |-> <<Gx.edges[j].u, Gx.edges[j].v>>]

EdgeAttr(Gx, method) ==
    [j \in 1..Len(Gx.edges) |-> Int64ToFloat32(EdgeLabels(Gx, method)[j].value)]

(***************************************************************************)
(* _nx_to_pyg (lib/gnn_handler): the training-time encoder.                *)
(***************************************************************************)
\* to_bits(n, bit_len)
to_bits(n, bit_len) ==
    CASE n.kind = "str" ->
           LET s == Strip(n.s, Whitespace) IN
           IF \E i \in 1..Len(s) : s[i] \notin {"0", "1"}
           THEN [error |-> "ValueError"]
           ELSE IF bit_len # Absent /\ Len(s) # bit_len[1]
           THEN [error |-> "ValueError"]
           ELSE [error |-> NoError,
                 bits |-> [i \in 1..Len(s) |-> DigitOf(s[i])]]
      [] n.kind = "seq" ->
           IF \E i \in 1..Len(n.items) : n.items[i] \notin {0, 1}
           THEN [error |-> "ValueError"]
           ELSE IF bit_len # Absent /\ Len(n.items) # bit_len[1]
           THEN [error |-> "ValueError"]
           ELSE [error |-> NoError, bits |-> n.items]
      [] n.kind = "int" ->
           IF bit_len = Absent THEN [error |-> "ValueError"]
           ELSE [error |-> NoError, bits |-> FormatBinary(n.n, bit_len[1])]

\* len(first) if isinstance(first, (str, list, tuple)) else None
InferredLen(first) ==
    CASE first.kind = "str" -> Given(Len(first.s))
      [] first.kind = "seq" -> Given(Len(first.items))
      [] OTHER -> Absent

\* weights = 2 ** torch.arange(BIT_LEN - 1, -1, -1), an int64 tensor
Weights(BIT_LEN) == [k \in 1..BIT_LEN |-> Int64Pow2(BIT_LEN - k)]

\* (row.to(int64) * weights).sum(): the product broadcasts when the two
\* lengths are equal or one of them is 1
RECURSIVE WeightedSum(_, _, _, _)
WeightedSum(row, weights, lo, hi) ==
    IF lo > hi THEN Int64Zero
    ELSE IF lo = hi
    THEN Int64Times01(row[IF Len(row) = 1 THEN 1 ELSE lo],
                      weights[IF Len(weights) = 1 THEN 1 ELSE lo])
    ELSE Int64Add(WeightedSum(row, weights, lo, (lo + hi) \div 2),
                  WeightedSum(row, weights, ((lo + hi) \div 2) + 1, hi))

\* the length of the broadcast product
BroadcastLen(n, m) == IF n > m THEN n ELSE m

Broadcasts(n, m) == n = m \/ n = 1 \/ m = 1

\* int(n) of the scalar branch
int_of_label(n) ==
    CASE n.kind = "str" -> int_of_str(n.s)
      [] n.kind = "seq" -> [error |-> "TypeError"]
      [] n.kind = "int" -> [error |-> NoError, value |-> PyInt(FALSE, NatOf(n.n))]

FirstError(results) ==
    results[CHOOSE i \in 1..Len(results) :
               /\ results[i].error # NoError
               /\ \A j \in 1..(i - 1) : results[j].error = NoError].error

AnyError(results) == \E i \in 1..Len(results) : results[i].error # NoError

nx_to_pyg(Gx, bitmask) ==
    LET op == "_nx_to_pyg"
        nodes == Gx.nodes
        BIT_LEN == IF Gx.bit_len # Absent THEN Gx.bit_len
                   ELSE InferredLen(nodes[1])
        bit_rows == [i \in 1..Len(nodes) |-> to_bits(nodes[i], BIT_LEN)]
        node_bits == [i \in 1..Len(nodes) |-> bit_rows[i].bits]
        weights == Weights(BIT_LEN[1])
        node_bitint ==
            [i \in 1..Len(nodes) |->
                WeightedSum(node_bits[i], weights, 1,
                            BroadcastLen(Len(node_bits[i]), Len(weights)))]
        raw_ids == [i \in 1..Len(nodes) |-> int_of_label(nodes[i])]
    IN  IF EdgeLabelsFail(Gx, "replace") THEN Raise(op, bitmask, "ValueError")
        ELSE IF bitmask
        THEN IF BIT_LEN = Absent THEN Raise(op, bitmask, "ValueError")
             ELSE IF AnyError(bit_rows) THEN Raise(op, bitmask, FirstError(bit_rows))
             ELSE IF \E i \in 1..Len(nodes) : Len(node_bits[i]) # Len(node_bits[1])
             THEN Raise(op, bitmask, "ValueError")
             ELSE IF ~Broadcasts(Len(node_bits[1]), BIT_LEN[1])
             THEN Raise(op, bitmask, "RuntimeError")
             ELSE [op |-> op, error |-> NoError, bitmask |-> TRUE,
                   edge_index  |-> EdgeIndex(Gx),
                   edge_attr   |-> EdgeAttr(Gx, "replace"),
                   node_bits   |-> node_bits,
                   node_bitint |-> node_bitint,
                   node_names  |-> [i \in 1..Len(nodes) |->
                                      Int64ToFloat32(Int64Value(node_bitint[i]))]]
        ELSE IF AnyError(raw_ids) THEN Raise(op, bitmask, FirstError(raw_ids))
             ELSE [op |-> op, error |-> NoError, bitmask |-> FALSE,
                   edge_index |-> EdgeIndex(Gx),
                   edge_attr  |-> EdgeAttr(Gx, "replace"),
                   node_names |-> [i \in 1..Len(nodes) |->
                                     PyIntToFloat32(raw_ids[i].value)]]

(***************************************************************************)
(* _parse_dot_bits and _parse_dot_ids (inside preprocess_for_onnx): the    *)
(* inference-time encoder.  bit_len is preprocess_for_onnx's argument.     *)
(***************************************************************************)
\* bit_len: int = 64
DefaultBitLen == 64

parse_row(n, bit_len) ==
    CASE n.kind = "str" ->
           LET s == Strip(n.s, Whitespace) IN
           IF \E i \in 1..Len(s) : s[i] \notin {"0", "1"}
           THEN [error |-> "ValueError"]
           ELSE IF Len(s) # bit_len THEN [error |-> "ValueError"]
           ELSE [error |-> NoError,
                 bits |-> [i \in 1..Len(s) |-> IF s[i] = "1" THEN 1 ELSE 0]]
      [] n.kind = "seq" ->
           IF \E i \in 1..Len(n.items) : n.items[i] \notin {0, 1}
           THEN [error |-> "ValueError"]
           ELSE IF Len(n.items) # bit_len THEN [error |-> "ValueError"]
           ELSE [error |-> NoError, bits |-> n.items]
      [] OTHER -> [error |-> "TypeError"]

parse_dot_bits(Gx, bit_len) ==
    LET op == "_parse_dot_bits"
        rows == [i \in 1..Len(Gx.nodes) |-> parse_row(Gx.nodes[i], bit_len)]
    IN  IF EdgeLabelsFail(Gx, "strip") THEN Raise(op, TRUE, "ValueError")
        ELSE IF AnyError(rows) THEN Raise(op, TRUE, FirstError(rows))
        ELSE [op |-> op, error |-> NoError, bitmask |-> TRUE, bit_len |-> bit_len,
              node_names |-> [i \in 1..Len(rows) |-> rows[i].bits],
              edge_index |-> EdgeIndex(Gx),
              edge_attr  |-> EdgeAttr(Gx, "strip")]

parse_dot_ids(Gx) ==
    LET op == "_parse_dot_ids"
        ids == [i \in 1..Len(Gx.nodes) |-> int_of_label(Gx.nodes[i])]
    IN  IF EdgeLabelsFail(Gx, "strip") THEN Raise(op, FALSE, "ValueError")
        ELSE IF AnyError(ids) THEN Raise(op, FALSE, FirstError(ids))
        ELSE [op |-> op, error |-> NoError, bitmask |-> FALSE,
              node_names |-> [i \in 1..Len(ids) |-> PyIntToFloat32(ids[i].value)],
              edge_index |-> EdgeIndex(Gx),
              edge_attr  |-> EdgeAttr(Gx, "strip")]

parse_dot(Gx, bitmask, bit_len) ==
    IF bitmask THEN parse_dot_bits(Gx, bit_len) ELSE parse_dot_ids(Gx)

(***************************************************************************)
(* SCALAR_ID normalisation: the value the encoders feed to id_mlp.         *)
(***************************************************************************)
\* TWO_48_MINUS_1 = float(2**48 - 1)
IdBits == 48
TWO_48_MINUS_1 == PyInt(FALSE, [k \in 1..IdBits |-> 1])

\* the Python scalar as the float32 operand of a float32 tensor operation
ScalarOperand(i) == PyIntToFloat32(i)

\* x / d for a divisor d = 2^d.e (d.m = 1): exact in float32
FloatDiv(x, d) ==
    IF x.inf \/ x.m = 0 THEN x
    ELSE Float(x.neg # d.neg, x.m, x.e - d.e)

\* x + n for a float x >= 0 with an integer value and a natural number n
FloatAdd(x, n) ==
    IF x.inf THEN x
    ELSE FloatOfRounded(FALSE,
            RoundNat(AddNat(NatOfFloat(x), NatOf(n)), SignificandBits))

FloatZero == Float(FALSE, 0, 0)
FloatOne == Float(FALSE, 1, 0)

FloatGreaterThanOne(x) ==
    /\ ~x.neg
    /\ \/ x.inf
       \/ x.m # 0 /\ x.e >= 0 /\ ~(x.m = 1 /\ x.e = 0)
       \/ x.m # 0 /\ x.e < 0 /\ -x.e <= SignificandBits /\ x.m > Pow2(-x.e)

\* .clamp(0.0, 1.0)
Clamp01(x) ==
    IF x.neg THEN FloatZero
    ELSE IF FloatGreaterThanOne(x) THEN FloatOne
    ELSE x

\* DistanceEstimator._encode, scalar branch (lib/gnn_handler)
encode_scalar(node_name) ==
    Clamp01(FloatDiv(node_name, ScalarOperand(TWO_48_MINUS_1)))

\* OnnxDistanceEstimatorWrapperIds._encode_raw (lib/gnn_handler)
OnnxIds_encode_raw(node_id_f32) ==
    Clamp01(FloatDiv(node_id_f32, ScalarOperand(TWO_48_MINUS_1)))

\* DistanceEstimator._encode (lib/RL)
RL_encode(node_name) ==
    Clamp01(FloatDiv(node_name, ScalarOperand(TWO_48_MINUS_1)))

\* OnnxDistanceEstimatorWrapper._encode_raw (lib/RL):
\* torch.clamp((node_ids.float() + 2.0) / TWO_48_MINUS_1, 0.0, 1.0)
RL_IdShift == 2
RL_Onnx_encode_raw(node_id) ==
    Clamp01(FloatDiv(FloatAdd(node_id, RL_IdShift), ScalarOperand(TWO_48_MINUS_1)))

(***************************************************************************)
(* The model facade (DistanceEstimatorModel) and the model's _encode.      *)
(***************************************************************************)
\* select_model: bit_input=40 if bitmask else None
SelectModelBitInput == 40
select_model(bitmask) == IF bitmask THEN Given(SelectModelBitInput) ELSE Absent

\* in_features of id_mlp[0]
InFeatures(bit_input) == IF bit_input # Absent THEN bit_input[1] ELSE 1

\* DistanceEstimator._encode up to id_mlp(raw): nn.Linear raises when the
\* last dimension of raw is not in_features
encode(bit_input, graph) ==
    LET use_bits == "node_bits" \in DOMAIN graph /\ bit_input # Absent
        raw == IF use_bits THEN graph.node_bits
               ELSE [i \in 1..Len(graph.node_names) |->
                        <<encode_scalar(graph.node_names[i])>>]
    IN  IF \E i \in 1..Len(raw) : Len(raw[i]) # InFeatures(bit_input)
        THEN [error |-> "RuntimeError"]
        ELSE [error |-> NoError,
              path  |-> IF use_bits THEN "node_bits" ELSE "node_names",
              raw   |-> raw]

\* predict_single: preprocess_sample, graph_collate_fn([sample]), the model
predict_single(bit_input, Gx, bitmask) ==
    LET op == "predict_single"
        ds == nx_to_pyg(Gx, bitmask)
        x  == encode(bit_input, ds)
    IN  IF ds.error # NoError
        THEN [op |-> op, bit_input |-> bit_input, bitmask |-> bitmask, error |-> ds.error,
              stage |-> "preprocess_sample"]
        ELSE IF x.error # NoError
        THEN [op |-> op, bit_input |-> bit_input, bitmask |-> bitmask, error |-> x.error,
              stage |-> "_encode"]
        ELSE [op |-> op, bit_input |-> bit_input, bitmask |-> bitmask, error |-> NoError,
              stage |-> "done", path |-> x.path, raw |-> x.raw]

\* to_onnx: the name and the static feature dimension of the first input
OnnxNodesInput(bit_input) ==
    IF bit_input = Absent THEN [name |-> "state_node_ids", dim |-> Absent]
    ELSE [name |-> "state_node_bits", dim |-> bit_input]

\* try_onnx: preprocess_for_onnx with its default bit_len, then the session
\* exported from the model; the runtime rejects a feed whose names or
\* static dimensions are not those of the exported inputs
try_onnx(bit_input, Gx, bitmask) ==
    LET op == "try_onnx"
        file == parse_dot(Gx, bitmask, DefaultBitLen)
        res  == preprocess_for_onnx(<<file>>, Absent, Absent, bitmask)
        inp  == OnnxNodesInput(bit_input)
    IN  IF file.error # NoError
        THEN [op |-> op, bit_input |-> bit_input, bitmask |-> bitmask, error |-> file.error,
              stage |-> "preprocess_for_onnx"]
        ELSE IF res.error # NoError
        THEN [op |-> op, bit_input |-> bit_input, bitmask |-> bitmask, error |-> res.error,
              stage |-> "preprocess_for_onnx"]
        ELSE IF inp.name \notin DOMAIN res.feed
        THEN [op |-> op, bit_input |-> bit_input, bitmask |-> bitmask, error |-> "InvalidArgument",
              stage |-> "run"]
        ELSE IF inp.dim # Absent
                /\ \E i \in 1..Len(res.feed[inp.name]) :
                      Len(res.feed[inp.name][i]) # inp.dim[1]
        THEN [op |-> op, bit_input |-> bit_input, bitmask |-> bitmask, error |-> "InvalidArgument",
              stage |-> "run"]
        ELSE [op |-> op, bit_input |-> bit_input, bitmask |-> bitmask, error |-> NoError,
              stage |-> "done",
              path  |-> IF bit_input = Absent THEN "node_names" ELSE "node_bits",
              raw   |-> IF bit_input # Absent THEN res.feed[inp.name]
                        ELSE [i \in 1..Len(res.feed[inp.name]) |->
                                <<OnnxIds_encode_raw(res.feed[inp.name][i])>>]]

(***************************************************************************)
(* DistanceEstimator (lib/gnn_handler): construction, get_checkpoint and   *)
(* load_model.  A model is its hyper-parameters and the shapes of the      *)
(* tensors of its state_dict; min_value and the dropout rate are in        *)
(* thousandths.                                                            *)
(***************************************************************************)
DefaultHiddenDim == 128
DefaultNodeEmbDim == 64
DefaultEdgeEmbDim == 32
DefaultRegressorHiddenDim == 128
DefaultRegressorBlocks == 3
DefaultRegressorDropout == 200
DefaultMinValue == 1

Arguments(hidden_dim, use_goal, use_depth, node_emb_dim, edge_emb_dim, regressor_hidden_dim, regressor_blocks, regressor_dropout, min_value, bit_input) ==
    [hidden_dim |-> hidden_dim, use_goal |-> use_goal,
     use_depth |-> use_depth, node_emb_dim |-> node_emb_dim,
     edge_emb_dim |-> edge_emb_dim,
     regressor_hidden_dim |-> regressor_hidden_dim,
     regressor_blocks |-> regressor_blocks,
     regressor_dropout |-> regressor_dropout,
     min_value |-> min_value, bit_input |-> bit_input]

\* one entry of the state_dict: the module, its index in the regressor's
\* nn.Sequential (0 outside the regressor), the shape of its weight
Param(name, idx, shape) == [name |-> name, idx |-> idx, shape |-> shape]

Linear(name, idx, in_dim, out_dim) == Param(name, idx, <<out_dim, in_dim>>)

GINE(name, a) ==
    {Param(name \o ".eps", 0, <<>>),
     Linear(name \o ".nn.0", 0, a.node_emb_dim, a.hidden_dim),
     Linear(name \o ".nn.2", 0, a.hidden_dim, a.hidden_dim),
     Linear(name \o ".lin", 0, a.edge_emb_dim, a.node_emb_dim)}

GINE2(name, a) ==
    {Param(name \o ".eps", 0, <<>>),
     Linear(name \o ".nn.0", 0, a.hidden_dim, a.hidden_dim),
     Linear(name \o ".nn.2", 0, a.hidden_dim, a.hidden_dim),
     Linear(name \o ".lin", 0, a.edge_emb_dim, a.hidden_dim)}

RegressorInDim(a) ==
    a.hidden_dim * (IF a.use_goal THEN 2 ELSE 1) + (IF a.use_depth THEN 1 ELSE 0)

\* DistanceEstimator.__init__
DistanceEstimator(a) ==
    [op |-> "DistanceEstimator",
     use_goal  |-> a.use_goal,
     use_depth |-> a.use_depth,
     min_value |-> a.min_value,
     bit_input |-> a.bit_input,
     dropout   |-> a.regressor_dropout,
     state_dict |->
        {Linear("id_mlp.0", 0, InFeatures(a.bit_input), a.node_emb_dim),
         Linear("id_mlp.2", 0, a.node_emb_dim, a.node_emb_dim),
         Linear("edge_mlp.0", 0, 1, a.edge_emb_dim),
         Linear("edge_mlp.2", 0, a.edge_emb_dim, a.edge_emb_dim)}
        \cup GINE("state_conv1", a) \cup GINE2("state_conv2", a)
        \cup (IF a.use_goal
              THEN GINE("goal_conv1", a) \cup GINE2("goal_conv2", a)
              ELSE {})
        \cup {Linear("regressor", 0, RegressorInDim(a), a.regressor_hidden_dim),
              Linear("regressor", 2 + a.regressor_blocks,
                     a.regressor_hidden_dim, 1)}
        \cup UNION {{Linear("regressor.lin1", 1 + b, a.regressor_hidden_dim,
                            a.regressor_hidden_dim),
                     Param("regressor.bn1", 1 + b, <<a.regressor_hidden_dim>>),
                     Linear("regressor.lin2", 1 + b, a.regressor_hidden_dim,
                            a.regressor_hidden_dim),
                     Param("regressor.bn2", 1 + b, <<a.regressor_hidden_dim>>)}
                    : b \in 1..a.regressor_blocks}]

\* the first Linear of a module, as get_checkpoint reads its out_features
OutFeatures(m, name) ==
    (CHOOSE p \in m.state_dict : p.name = name).shape[1]

\* get_checkpoint: {"state_dict": ..., "config": cfg}
get_checkpoint(m) ==
    [op |-> "get_checkpoint",
     state_dict |-> m.state_dict,
     config |-> [hidden_dim   |-> OutFeatures(m, "state_conv1.nn.0"),
                 node_emb_dim |-> OutFeatures(m, "id_mlp.0"),
                 edge_emb_dim |-> OutFeatures(m, "edge_mlp.0"),
                 use_goal     |-> m.use_goal,
                 use_depth    |-> m.use_depth,
                 bit_input    |-> m.bit_input]]

\* load_model: the constructor with the config's entries and its defaults
\* for the rest, then load_state_dict (strict: the names and the shapes of
\* the checkpoint's tensors must be those of the new model).  cfg["k"]
\* raises KeyError when k is missing, cfg.get("k", v) gives v
load_model(c) ==
    LET cfg == c.config
        use_depth == IF "use_depth" \in DOMAIN cfg THEN cfg.use_depth ELSE TRUE
        bit_input == IF "bit_input" \in DOMAIN cfg THEN cfg.bit_input ELSE Absent
        model == DistanceEstimator(
                    Arguments(cfg.hidden_dim, cfg.use_goal, use_depth,
                              cfg.node_emb_dim, cfg.edge_emb_dim,
                              DefaultRegressorHiddenDim, DefaultRegressorBlocks,
                              DefaultRegressorDropout, DefaultMinValue,
                              bit_input))
    IN  IF {"hidden_dim", "use_goal", "node_emb_dim", "edge_emb_dim"}
              \ DOMAIN cfg # {}
        THEN [op |-> "load_model", error |-> "KeyError"]
        ELSE IF model.state_dict # c.state_dict
        THEN [op |-> "load_model", error |-> "RuntimeError"]
        ELSE [op |-> "load_model", error |-> NoError, model |-> model]

(***************************************************************************)
(* Inputs of the encoders.                                                 *)
(***************************************************************************)
MaxGraphNodes == 2

\* lengths of the 0/1 labels drawn as input
LabelLens == {3, 40, 64}

Rep(c, n) == [k \in 1..n |-> c]

LabelChoices ==
    {StrLabel(<<"1">> \o Rep("0", n - 1)) : n \in LabelLens}
    \cup {StrLabel(Rep("0", n - 1) \o <<"1">>) : n \in LabelLens}
    \cup {StrLabel(<<" ", "0", "1">>), StrLabel(<<"1", "2">>),
          SeqLabel(<<1, 0, 1>>), IntLabel(5), IntLabel(9)}

\* labels of the nodes after the first one
FurtherLabels ==
    {StrLabel(<<"1", "1", "0">>), StrLabel(Rep("1", 64)), IntLabel(9)}

NodeLists ==
    UNION {{<<a>> \o t : a \in LabelChoices, t \in [1..(n - 1) -> FurtherLabels]}
           : n \in 1..MaxGraphNodes}

\* G.graph["bit_len"], if the graph has the attribute
BitLenAttrs == {Absent, Given(3)}

\* the label attribute of the edge, if it has one (pydot keeps the quotes)
EdgeTexts == {Absent, Given(<<Quote, "3", Quote>>)}

GraphChoices ==
    {[nodes |-> ns, bit_len |-> b,
      edges |-> <<[u |-> 0, v |-> Len(ns) - 1, label |-> t]>>]
        : ns \in NodeLists, b \in BitLenAttrs, t \in EdgeTexts}

\* the bit_input of the checkpoints load_model is given
CheckpointBitInputs == {Absent, Given(SelectModelBitInput), Given(DefaultBitLen)}

\* the bit_len arguments preprocess_for_onnx is called with
BitLenArgs == {DefaultBitLen, SelectModelBitInput}

(***************************************************************************)
(* SpecEncode: one file through the two encoders.                          *)
(* SpecFacade: one file through the model facade.                          *)
(***************************************************************************)
Unused == data = NotRun /\ parsed = NotRun /\ pred = NotRun

\* _load_dot
LoadDot ==
    /\ G = NoGraph
    /\ G' \in GraphChoices
    /\ UNCHANGED <<core, data, parsed, pred, collVars, normVars, ckptVars, restVars>>

\* select_model(..., bitmask)
SelectModel ==
    /\ Unused
    /\ \E bitmask \in BOOLEAN : core' = select_model(bitmask)
    /\ UNCHANGED <<G, data, parsed, pred, collVars, normVars, ckptVars, restVars>>

\* DistanceEstimatorModel.load_model: the model becomes the checkpoint's
LoadModel ==
    /\ Unused
    /\ core' \in CheckpointBitInputs
    /\ UNCHANGED <<G, data, parsed, pred, collVars, normVars, ckptVars, restVars>>

\* preprocess_sample(state_path, bitmask=bitmask)
PreprocessSample ==
    /\ G # NoGraph
    /\ data = NotRun
    /\ \E bitmask \in BOOLEAN : data' = nx_to_pyg(G, bitmask)
    /\ UNCHANGED <<core, G, parsed, pred, collVars, normVars, ckptVars, restVars>>

\* preprocess_for_onnx([state_path], bitmask=bitmask, bit_len=bit_len)
ParseDot ==
    /\ G # NoGraph
    /\ parsed = NotRun
    /\ \E bitmask \in BOOLEAN, bit_len \in BitLenArgs :
          parsed' = parse_dot(G, bitmask, bit_len)
    /\ UNCHANGED <<core, G, data, pred, collVars, normVars, ckptVars, restVars>>

NextEncode ==
    \/ LoadDot
    \/ SelectModel
    \/ LoadModel
    \/ PreprocessSample
    \/ ParseDot

SpecEncode == Init /\ [][NextEncode]_vars

\* predict_single(state_dot, bitmask=bitmask)
PredictSingle ==
    /\ G # NoGraph
    /\ pred = NotRun
    /\ \E bitmask \in BOOLEAN : pred' = predict_single(core, G, bitmask)
    /\ UNCHANGED <<core, G, data, parsed, collVars, normVars, ckptVars, restVars>>

\* try_onnx(onnx_path, [state_dot], bitmask=bitmask), the session being the
\* export of the model
TryOnnx ==
    /\ G # NoGraph
    /\ pred = NotRun
    /\ \E bitmask \in BOOLEAN : pred' = try_onnx(core, G, bitmask)
    /\ UNCHANGED <<core, G, data, parsed, collVars, normVars, ckptVars, restVars>>

NextFacade ==
    \/ LoadDot
    \/ SelectModel
    \/ LoadModel
    \/ PredictSingle
    \/ TryOnnx

SpecFacade == Init /\ [][NextFacade]_vars

(***************************************************************************)
(* What the claims about encoding speak of.                                *)
(***************************************************************************)
Ran(r) == r.op # "none"

\* the number of 0/1 digits a label stands for
LabelWidth(n) ==
    CASE n.kind = "str" -> Len(Strip(n.s, Whitespace))
      [] n.kind = "seq" -> Len(n.items)
      [] n.kind = "int" -> Len(NatOf(n.n))

WrongLength(n, W) ==
    IF n.kind = "int" THEN LabelWidth(n) > W ELSE LabelWidth(n) # W

\* the natural number a string of 0/1 characters is the binary numeral of
BinaryNat(s) == Norm([k \in 1..Len(s) |-> DigitOf(s[Len(s) + 1 - k])])

\* C4: for the same file and the same scheme the training-time encoder and
\* the inference-time encoder accept or reject together, and when they
\* accept they give the same node features, edge_index and edge_attr.
Inv_C4_EncodersAgree ==
    (Ran(data) /\ Ran(parsed) /\ data.bitmask = parsed.bitmask) =>
        /\ (data.error = NoError) <=> (parsed.error = NoError)
        /\ (data.error = NoError /\ parsed.error = NoError) =>
              /\ parsed.node_names =
                    (IF data.bitmask THEN data.node_bits ELSE data.node_names)
              /\ parsed.edge_index = data.edge_index
              /\ parsed.edge_attr = data.edge_attr

\* C6: with a BITMASK model of width W, encoding a file that has a label
\* whose length is not W raises, in the training-time encoder and in the
\* inference-time encoder.
Inv_C6_WrongLengthRaises ==
    (core # Absent /\ G # NoGraph
        /\ \E i \in 1..Len(G.nodes) : WrongLength(G.nodes[i], core[1])) =>
        /\ (Ran(data) /\ data.bitmask) => data.error # NoError
        /\ (Ran(parsed) /\ parsed.bitmask) => parsed.error # NoError

\* C7: for a label that is a string of W <= 64 characters 0/1, the integer
\* decoded from its bit vector by the msb-first int64 weights is the
\* integer the string is the binary numeral of.
Inv_C7_BitmaskRoundTrip ==
    (Ran(data) /\ data.bitmask /\ data.error = NoError) =>
        \A i \in 1..Len(G.nodes) :
            (G.nodes[i].kind = "str" /\ LabelWidth(G.nodes[i]) <= Limbs * LimbBits) =>
                Int64Value(data.node_bitint[i]) =
                    PyInt(FALSE, BinaryNat(Strip(G.nodes[i].s, Whitespace)))

\* C5: an encode operation of the facade whose scheme is not the model's,
\* or whose labels do not have the model's width, fails; when it succeeds
\* the features the model consumes are those of the requested scheme.
Inv_C5_MismatchIsFatal ==
    Ran(pred) =>
        /\ (pred.bitmask # (pred.bit_input # Absent)) => pred.error # NoError
        /\ (pred.bitmask /\ pred.bit_input # Absent
              /\ \E i \in 1..Len(G.nodes) :
                    WrongLength(G.nodes[i], pred.bit_input[1])) =>
              pred.error # NoError
        /\ pred.error = NoError =>
              pred.path = (IF pred.bitmask THEN "node_bits" ELSE "node_names")

(***************************************************************************)
(* SpecNorm: an integer node label through the scalar encoders.            *)
(***************************************************************************)
\* numbers of binary digits of the labels drawn as input
IdLens == {1, 2, 24, 25, 26, 47, 48}

IdLabels ==
    {<<>>}
    \cup {Rep(1, n) : n \in IdLens}
    \cup {Norm(Rep(0, n - 1) \o <<1>>) : n \in IdLens}
    \cup {Norm(<<1>> \o Rep(0, n - 2) \o <<1>>) : n \in IdLens \ {1}}
    \cup {Norm(<<0>> \o Rep(1, n - 1)) : n \in IdLens}
    \cup {Norm([k \in 1..n |-> k % 2]) : n \in IdLens}

\* the float32 tensor of node ids the encoders are given
NodeIdTensor(l) == PyIntToFloat32(PyInt(FALSE, l))

Encode ==
    /\ \E l \in IdLabels :
          /\ label' = l
          /\ norm' = [op |-> "_encode", x |-> encode_scalar(NodeIdTensor(l))]
    /\ UNCHANGED <<collVars, encVars, ckptVars, restVars>>

OnnxIdsEncodeRaw ==
    /\ \E l \in IdLabels :
          /\ label' = l
          /\ norm' = [op |-> "OnnxDistanceEstimatorWrapperIds._encode_raw",
                      x  |-> OnnxIds_encode_raw(NodeIdTensor(l))]
    /\ UNCHANGED <<collVars, encVars, ckptVars, restVars>>

RL_Encode ==
    /\ \E l \in IdLabels :
          /\ label' = l
          /\ norm' = [op |-> "RL._encode", x |-> RL_encode(NodeIdTensor(l))]
    /\ UNCHANGED <<collVars, encVars, ckptVars, restVars>>

RL_OnnxEncodeRaw ==
    /\ \E l \in IdLabels :
          /\ label' = l
          /\ norm' = [op |-> "RL.OnnxDistanceEstimatorWrapper._encode_raw",
                      x  |-> RL_Onnx_encode_raw(NodeIdTensor(l))]
    /\ UNCHANGED <<collVars, encVars, ckptVars, restVars>>

NextNorm ==
    \/ Encode
    \/ OnnxIdsEncodeRaw
    \/ RL_Encode
    \/ RL_OnnxEncodeRaw

SpecNorm == Init /\ [][NextNorm]_vars

InUnitRange(x) == ~x.inf /\ (x.m = 0 \/ ~x.neg) /\ ~FloatGreaterThanOne(x)

\* C8: for every label from 0 to 2^48-1 the normalised value lies in [0,1],
\* label 0 gives exactly 0 and label 2^48-1 gives exactly 1, in every
\* encoder.
Inv_C8_NormalisedInUnitRange ==
    Ran(norm) =>
        /\ InUnitRange(norm.x)
        /\ label = <<>> => norm.x = FloatZero
        /\ label = TWO_48_MINUS_1.mag => norm.x = FloatOne

(***************************************************************************)
(* SpecCkpt: construct, checkpoint, reload.                                *)
(***************************************************************************)
ArgumentChoices ==
    {Arguments(h, g, d, DefaultNodeEmbDim, DefaultEdgeEmbDim, rh, rb,
               DefaultRegressorDropout, mv, b) :
        h \in {DefaultHiddenDim, 64}, g \in BOOLEAN, d \in BOOLEAN,
        rh \in {DefaultRegressorHiddenDim, 64},
        rb \in {DefaultRegressorBlocks, 2},
        mv \in {DefaultMinValue, 10},
        b \in {Absent, Given(SelectModelBitInput)}}

Construct ==
    /\ estimator = NotRun
    /\ \E a \in ArgumentChoices : estimator' = DistanceEstimator(a)
    /\ UNCHANGED <<ckpt, loaded, collVars, encVars, normVars, restVars>>

GetCheckpoint ==
    /\ estimator # NotRun
    /\ ckpt = NotRun
    /\ ckpt' = get_checkpoint(estimator)
    /\ UNCHANGED <<estimator, loaded, collVars, encVars, normVars, restVars>>

LoadCheckpoint ==
    /\ ckpt # NotRun
    /\ loaded = NotRun
    /\ loaded' = load_model(ckpt)
    /\ UNCHANGED <<estimator, ckpt, collVars, encVars, normVars, restVars>>

NextCkpt ==
    \/ Construct
    \/ GetCheckpoint
    \/ LoadCheckpoint

SpecCkpt == Init /\ [][NextCkpt]_vars

\* C10: load_model on the checkpoint of a constructed model succeeds and
\* gives a model with the architecture and the hyper-parameters of the
\* constructed one.
Inv_C10_CheckpointRebuilds ==
    Ran(loaded) =>
        /\ loaded.error = NoError
        /\ loaded.model = estimator

(***************************************************************************)
(* SpecCkptKeys: load_model on a checkpoint whose config lacks a key (a    *)
(* file written before the key existed, or edited).                        *)
(***************************************************************************)
ConfigKeys ==
    {"hidden_dim", "node_emb_dim", "edge_emb_dim", "use_goal", "use_depth",
     "bit_input"}

\* the checkpoint c with the entry k removed from its config
WithoutKey(c, k) ==
    [c EXCEPT !.config = [x \in (DOMAIN c.config) \ {k} |-> c.config[x]]]

\* ckpt = torch.load(path); DistanceEstimator.load_model(ckpt)
LoadCheckpointWithout ==
    /\ ckpt # NotRun
    /\ loaded = NotRun
    /\ \E k \in ConfigKeys :
          /\ k \in DOMAIN ckpt.config
          /\ ckpt' = WithoutKey(ckpt, k)
          /\ loaded' = load_model(ckpt')
    /\ UNCHANGED <<estimator, collVars, encVars, normVars, restVars>>

NextCkptKeys ==
    \/ Construct
    \/ GetCheckpoint
    \/ LoadCheckpoint
    \/ LoadCheckpointWithout

SpecCkptKeys == Init /\ [][NextCkptKeys]_vars

\* the keys the model of the checkpoint needs to be rebuilt
RequiredKeys(m) ==
    {"hidden_dim", "node_emb_dim", "edge_emb_dim", "use_goal", "use_depth"}
    \cup (IF m.bit_input # Absent THEN {"bit_input"} ELSE {})

\* C11: load_model on a checkpoint whose config lacks a key the model
\* needs fails with an error; it never rebuilds the model with a default
\* in the key's place.
Inv_C11_MissingKeyFails ==
    (Ran(loaded) /\ RequiredKeys(estimator) \ DOMAIN ckpt.config # {}) =>
        loaded.error # NoError

(***************************************************************************)
(* SpecForward: a collated batch through DistanceEstimator.forward and     *)
(* through the forward of the ONNX wrapper of the same model.  The learned *)
(* layers are the same modules in both passes, so a pass is described by   *)
(* what it feeds to them: per graph batch the input of id_mlp with the     *)
(* edges and the batch vector, the depth column, and the output clamp.     *)
(***************************************************************************)
MaxFwdBatch == 2

\* the node ids and the depths of the batches drawn as input
FwdNodeIds == {0, 5}
FwdDepths == {0, 5}
FwdBitLen == 3

Variants == {"gnn_handler", "RL.utils", "RL.make_prediction"}

\* a batch of B one-node graphs with a self loop each, as Batch.from_data_list
\* gives it; node_bits is there when the samples were encoded with bitmask
FwdGraph(ids, bitmask) ==
    LET B == Len(ids)
        base == [node_names |-> [i \in 1..B |-> NodeIdTensor(NatOf(ids[i]))],
                 x          |-> [i \in 1..B |-> 0],
                 edge_index |-> [i \in 1..B |-> <<i - 1, i - 1>>],
                 edge_attr  |-> [i \in 1..B |-> Int64ToFloat32(PyInt(FALSE, NatOf(3)))],
                 batch      |-> [i \in 1..B |-> i - 1]]
    IN  IF bitmask
        THEN [f \in DOMAIN base \cup {"node_bits"} |->
                IF f = "node_bits"
                THEN [i \in 1..B |-> FormatBinary(ids[i], FwdBitLen)]
                ELSE base[f]]
        ELSE base

NetChoices ==
    {[op |-> "DistanceEstimator", variant |-> v, use_goal |-> g,
      use_depth |-> d, bit_input |-> b, min_value |-> DefaultMinValue,
      training |-> t] :
        v \in Variants, g \in BOOLEAN, d \in BOOLEAN, t \in BOOLEAN,
        b \in {Absent, Given(FwdBitLen)}}

\* lib/RL has no bitmask scheme; make_prediction has no use_depth flag
NetExists(n) ==
    /\ n.variant # "gnn_handler" => n.bit_input = Absent
    /\ n.variant = "RL.make_prediction" => n.use_depth

\* graph_collate_fn's result for B samples encoded with the model's scheme
BatchChoices(n) ==
    {[op |-> "graph_collate_fn",
      state_graph |-> FwdGraph(ids, n.bit_input # Absent),
      goal_graph  |-> IF goal THEN Given(FwdGraph([i \in 1..Len(ids) |-> 0],
                                                  n.bit_input # Absent))
                      ELSE Absent,
      depth |-> dep] :
        ids \in UNION {[1..B -> FwdNodeIds] : B \in 1..MaxFwdBatch},
        goal \in BOOLEAN,
        dep \in {Absent} \cup
                {Given(ds) : ds \in UNION {[1..B -> FwdDepths] : B \in 1..MaxFwdBatch}}}

BatchFits(b) ==
    b.depth # Absent => Len(b.depth[1]) = Len(b.state_graph.batch)

\* what conv1/conv2 and the mean pool are applied to
Encoded(raw, graph, conv) ==
    [conv |-> conv, raw |-> raw, edge_index |-> graph.edge_index,
     edge_attr |-> graph.edge_attr, batch |-> graph.batch]

\* B = batch.max() + 1
NumGraphs(graph) == graph.batch[Len(graph.batch)] + 1

\* d.float().view(-1, 1): the values as they are
RawDepth(ds) == [i \in 1..Len(ds) |-> [kind |-> "raw", value |-> ds[i]]]

\* torch.zeros(len(rep), 1)
ZeroDepth(B) == [i \in 1..B |-> [kind |-> "raw", value |-> 0]]

RECURSIVE SumSeq(_)
SumSeq(q) == IF q = <<>> THEN 0 ELSE Head(q) + SumSeq(Tail(q))

\* (depth - depth.mean()) / (depth.std(unbiased=False) + 1e-6), kept exact:
\* the entry i is (diff / B) / (sqrt(sq) / B + 1e-6) with
\* diff = B * d_i - sum(d) and sq = B * sum(d^2) - sum(d)^2
NormalisedDepth(ds) ==
    LET B == Len(ds)
        S == SumSeq(ds)
        Q == SumSeq([i \in 1..B |-> ds[i] * ds[i]])
    IN  [i \in 1..B |->
            [kind |-> "normalised", diff |-> B * ds[i] - S,
             sq |-> B * Q - S * S, B |-> B]]

\* the id_mlp input of the scalar encoders of lib/RL
RL_raw(graph) ==
    [i \in 1..Len(graph.node_names) |-> <<RL_encode(graph.node_names[i])>>]

RL_Onnx_raw(graph) ==
    [i \in 1..Len(graph.node_names) |-> <<RL_Onnx_encode_raw(graph.node_names[i])>>]

OnnxIds_raw(graph) ==
    [i \in 1..Len(graph.node_names) |-> <<OnnxIds_encode_raw(graph.node_names[i])>>]

FwdResult(op, rep, depth, clamp) ==
    [op |-> op, error |-> NoError, rep |-> rep, depth |-> depth, clamp |-> clamp]

FwdError(op, exc) == [op |-> op, error |-> exc]

\* DistanceEstimator.forward (lib/gnn_handler): the regressor's first Linear
\* raises when rep has not the in_dim columns the model was built with
forward(n, b) ==
    LET op == "forward"
        B == NumGraphs(b.state_graph)
        s == encode(n.bit_input, b.state_graph)
        with_goal == n.use_goal /\ b.goal_graph # Absent
        g == encode(n.bit_input, b.goal_graph[1])
        d == IF b.depth = Absent THEN ZeroDepth(B) ELSE RawDepth(b.depth[1])
    IN  IF s.error # NoError THEN FwdError(op, s.error)
        ELSE IF with_goal /\ g.error # NoError THEN FwdError(op, g.error)
        ELSE IF n.use_depth /\ Len(d) # B THEN FwdError(op, "RuntimeError")
        ELSE IF n.use_goal /\ ~with_goal THEN FwdError(op, "RuntimeError")
        ELSE FwdResult(op,
                <<Encoded(s.raw, b.state_graph, "state")>>
                \o (IF with_goal
                    THEN <<Encoded(g.raw, b.goal_graph[1], "goal")>> ELSE <<>>),
                IF n.use_depth THEN Given(d) ELSE Absent,
                Given(n.min_value))

\* OnnxDistanceEstimatorWrapperIds.forward / ...Bits.forward, the wrapper
\* being the one _get_onnx_wrapper picks for the model
wrapper_forward(n, b) ==
    LET op == "wrapper.forward"
        B == NumGraphs(b.state_graph)
        bits == n.bit_input # Absent
        raw(graph) == IF bits THEN graph.node_bits ELSE OnnxIds_raw(graph)
        with_goal == n.use_goal /\ b.goal_graph # Absent
                        /\ Len(b.goal_graph[1].batch) > 0
        d == IF b.depth = Absent \/ b.depth[1] = <<>> THEN ZeroDepth(B)
             ELSE RawDepth(b.depth[1])
    IN  IF bits /\ \E i \in 1..Len(b.state_graph.node_bits) :
                      Len(b.state_graph.node_bits[i]) # n.bit_input[1]
        THEN FwdError(op, "RuntimeError")
        ELSE IF n.use_depth /\ Len(d) # B THEN FwdError(op, "RuntimeError")
        ELSE IF n.use_goal /\ ~with_goal THEN FwdError(op, "RuntimeError")
        ELSE FwdResult(op,
                <<Encoded(raw(b.state_graph), b.state_graph, "state")>>
                \o (IF with_goal
                    THEN <<Encoded(raw(b.goal_graph[1]), b.goal_graph[1], "goal")>>
                    ELSE <<>>),
                IF n.use_depth THEN Given(d) ELSE Absent,
                Given(n.min_value))

\* DistanceEstimator.forward (lib/RL/utils.py): no output clamp
RL_forward(n, b) ==
    LET op == "forward"
        B == NumGraphs(b.state_graph)
        with_goal == n.use_goal /\ b.goal_graph # Absent
        d == IF b.depth = Absent THEN ZeroDepth(B) ELSE RawDepth(b.depth[1])
    IN  IF n.use_depth /\ Len(d) # B THEN FwdError(op, "RuntimeError")
        ELSE IF n.use_goal /\ ~with_goal THEN FwdError(op, "RuntimeError")
        ELSE FwdResult(op,
                <<Encoded(RL_raw(b.state_graph), b.state_graph, "state")>>
                \o (IF with_goal
                    THEN <<Encoded(RL_raw(b.goal_graph[1]), b.goal_graph[1], "goal")>>
                    ELSE <<>>),
                IF n.use_depth THEN Given(d) ELSE Absent,
                Absent)

\* OnnxDistanceEstimatorWrapper.forward (lib/RL/utils.py); preprocess_for_onnx
\* passes empty goal tensors when there is no goal
RL_wrapper_forward(n, b) ==
    LET op == "wrapper.forward"
        B == NumGraphs(b.state_graph)
        with_goal == n.use_goal /\ b.goal_graph # Absent
                        /\ Len(b.goal_graph[1].batch) > 0
        d == IF b.depth = Absent \/ b.depth[1] = <<>> THEN ZeroDepth(B)
             ELSE RawDepth(b.depth[1])
    IN  IF n.use_depth /\ Len(d) # B THEN FwdError(op, "RuntimeError")
        ELSE IF n.use_goal /\ ~with_goal THEN FwdError(op, "RuntimeError")
        ELSE FwdResult(op,
                <<Encoded(RL_Onnx_raw(b.state_graph), b.state_graph, "state")>>
                \o (IF with_goal
                    THEN <<Encoded(RL_Onnx_raw(b.goal_graph[1]), b.goal_graph[1],
                                   "goal")>>
                    ELSE <<>>),
                IF n.use_depth THEN Given(d) ELSE Absent,
                Absent)

\* DistanceEstimator.forward (lib/RL/make_prediction.py): x.float() goes to
\* the convolutions, batch_dict["depth"] is required and normalised
MP_forward(n, b) ==
    LET op == "forward"
        with_goal == n.use_goal /\ b.goal_graph # Absent
        raw(graph) == [i \in 1..Len(graph.x) |-> <<graph.x[i]>>]
    IN  IF b.depth = Absent THEN FwdError(op, "AttributeError")
        ELSE IF n.use_goal /\ ~with_goal THEN FwdError(op, "RuntimeError")
        ELSE FwdResult(op,
                <<Encoded(raw(b.state_graph), b.state_graph, "state")>>
                \o (IF with_goal
                    THEN <<Encoded(raw(b.goal_graph[1]), b.goal_graph[1], "goal")>>
                    ELSE <<>>),
                Given(NormalisedDepth(b.depth[1])),
                Absent)

\* a model is built (select_model, load_model) and put in train() or eval()
BuildModel ==
    /\ net = NotRun
    /\ \E n \in NetChoices : NetExists(n) /\ net' = n
    /\ UNCHANGED <<inputs, fwd, onnx, collVars, encVars, normVars, ckptVars, fwdOthers>>

\* a batch of the data loader, or graph_collate_fn([sample]) of predict_single
NextBatch ==
    /\ net # NotRun
    /\ inputs = NotRun
    /\ \E b \in BatchChoices(net) : BatchFits(b) /\ inputs' = b
    /\ UNCHANGED <<net, fwd, onnx, collVars, encVars, normVars, ckptVars, fwdOthers>>

\* self.model(batch)
Forward ==
    /\ inputs # NotRun
    /\ fwd = NotRun
    /\ fwd' = CASE net.variant = "gnn_handler" -> forward(net, inputs)
                [] net.variant = "RL.utils" -> RL_forward(net, inputs)
                [] OTHER -> MP_forward(net, inputs)
    /\ UNCHANGED <<net, inputs, onnx, collVars, encVars, normVars, ckptVars, fwdOthers>>

\* the exported wrapper on the tensors of the same batch
WrapperForward ==
    /\ inputs # NotRun
    /\ onnx = NotRun
    /\ net.variant # "RL.make_prediction"
    /\ onnx' = IF net.variant = "gnn_handler" THEN wrapper_forward(net, inputs)
               ELSE RL_wrapper_forward(net, inputs)
    /\ UNCHANGED <<net, inputs, fwd, collVars, encVars, normVars, ckptVars, fwdOthers>>

NextForward ==
    \/ BuildModel
    \/ NextBatch
    \/ Forward
    \/ WrapperForward

SpecForward == Init /\ [][NextForward]_vars

\* C12: on the same batch the wrapper's forward and the model's forward
\* fail together, and otherwise feed the same values to the same layers
\* and clamp the output the same way.
Inv_C12_WrapperEqualsForward ==
    (Ran(fwd) /\ Ran(onnx)) =>
        /\ (fwd.error = NoError) <=> (onnx.error = NoError)
        /\ fwd.error = NoError =>
              /\ onnx.rep = fwd.rep
              /\ onnx.depth = fwd.depth
              /\ onnx.clamp = fwd.clamp

\* C14: in training mode a model that uses depth does not accept a batch
\* without depth: the forward pass fails instead of using zeros.
Inv_C14_NoZeroDepthInTraining ==
    (Ran(fwd) /\ net.training /\ net.use_depth /\ inputs.depth = Absent) =>
        fwd.error # NoError

IsZeroDepth(d) ==
    IF d.kind = "raw" THEN d.value = 0 ELSE d.diff = 0

Uniform(ds) == \A i \in 1..Len(ds) : ds[i] = ds[1]

\* C15: for a batch whose depths are all equal, the depth feature of every
\* element is exactly 0 in the forward pass of every model variant.
Inv_C15_UniformDepthIsZero ==
    (Ran(fwd) /\ fwd.error = NoError /\ net.use_depth
        /\ inputs.depth # Absent /\ Uniform(inputs.depth[1])) =>
        \A i \in 1..Len(fwd.depth[1]) : IsZeroDepth(fwd.depth[1][i])

(***************************************************************************)
(* SpecExport: the input contract to_onnx declares for a model, next to    *)
(* the feed preprocess_for_onnx builds.  A dummy input is its dtype and    *)
(* its shape, each axis being the variable that sizes it and the size.     *)
(***************************************************************************)
\* Ns, Es = 3, 4 and Ng, Eg = 2, 3
DummyNs == 3
DummyEs == 4
DummyNg == 2
DummyEg == 3

Axis(role, size) == [role |-> role, size |-> size]

Tensor(dtype, shape) == [dtype |-> dtype, shape |-> shape]

\* the four inputs of one side with the edge axis of edge_index left static
ExportSide_StaticEdges(side, bit_input, N, E) ==
    LET nc == side \o "_node_count"
        ec == side \o "_edge_count"
        nodes == side \o (IF bit_input = Absent THEN "_node_ids" ELSE "_node_bits")
    IN  [input_names |-> <<nodes, side \o "_edge_index", side \o "_edge_attr",
                           side \o "_batch">>,
         dummy_inputs |->
            <<IF bit_input = Absent
              THEN Tensor("float32", <<Axis(nc, N)>>)
              ELSE Tensor("uint8", <<Axis(nc, N), Axis("bit_len", bit_input[1])>>),
              Tensor("int64", <<Axis("2", 2), Axis(ec, E)>>),
              Tensor("float32", <<Axis(ec, E), Axis("1", 1)>>),
              Tensor("int64", <<Axis(nc, N)>>)>>,
         dynamic_axes |-> <<{0}, {}, {0}, {0}>>]

\* the four inputs of one side; axes are numbered from 0
ExportSide(side, bit_input, N, E) ==
    LET nc == side \o "_node_count"
        ec == side \o "_edge_count"
        nodes == side \o (IF bit_input = Absent THEN "_node_ids" ELSE "_node_bits")
    IN  [input_names |-> <<nodes, side \o "_edge_index", side \o "_edge_attr",
                           side \o "_batch">>,
         dummy_inputs |->
            <<IF bit_input = Absent
              THEN Tensor("float32", <<Axis(nc, N)>>)
              ELSE Tensor("uint8", <<Axis(nc, N), Axis("bit_len", bit_input[1])>>),
              Tensor("int64", <<Axis("2", 2), Axis(ec, E)>>),
              Tensor("float32", <<Axis(ec, E), Axis("1", 1)>>),
              Tensor("int64", <<Axis(nc, N)>>)>>,
         dynamic_axes |-> <<{0}, {1}, {0}, {0}>>]

Concat(a, b) ==
    [input_names  |-> a.input_names \o b.input_names,
     dummy_inputs |-> a.dummy_inputs \o b.dummy_inputs,
     dynamic_axes |-> a.dynamic_axes \o b.dynamic_axes]

NoInputs == [input_names |-> <<>>, dummy_inputs |-> <<>>, dynamic_axes |-> <<>>]

\* to_onnx(onnx_path, with_goal, with_depth): input_names, dummy_inputs and
\* the dynamic axes of each input, in the order they are appended
to_onnx(bit_input, with_goal, with_depth) ==
    LET state == ExportSide("state", bit_input, DummyNs, DummyEs)
        goal  == IF with_goal THEN ExportSide("goal", bit_input, DummyNg, DummyEg)
                 ELSE NoInputs
        depth == IF with_depth
                 THEN [input_names  |-> <<"depth">>,
                       dummy_inputs |-> <<Tensor("float32", <<Axis("B", 1)>>)>>,
                       dynamic_axes |-> <<{0}>>]
                 ELSE NoInputs
        all == Concat(Concat(state, goal), depth)
    IN  [op |-> "to_onnx", bit_input |-> bit_input, with_goal |-> with_goal,
         with_depth |-> with_depth, input_names |-> all.input_names,
         dummy_inputs |-> all.dummy_inputs, dynamic_axes |-> all.dynamic_axes]

\* the dtype of an entry of preprocess_for_onnx's feed, as the code that
\* builds the tensor sets it
FeedDtype(k) ==
    CASE k \in {"state_node_bits", "goal_node_bits"}     -> "uint8"
      [] k \in {"state_node_ids", "goal_node_ids"}       -> "float32"
      [] k \in {"state_edge_index", "goal_edge_index"}   -> "int64"
      [] k \in {"state_edge_attr", "goal_edge_attr"}     -> "float32"
      [] k \in {"state_batch", "goal_batch"}             -> "int64"
      [] k = "depth"                                     -> "float32"

\* DistanceEstimatorModel.to_onnx on the model that was selected or loaded
ToOnnx ==
    /\ exported = NotRun
    /\ \E with_goal \in BOOLEAN, with_depth \in BOOLEAN :
          exported' = to_onnx(core, with_goal, with_depth)
    /\ UNCHANGED <<collVars, encVars, normVars, ckptVars, expOthers>>

\* the files, goal files and depths try_onnx is called with
FeedInputs ==
    {[i \in 1..B |-> MkSample(Graph(n, 2), d, Absent, g)] :
        B \in 1..2, n \in 1..MaxNodes,
        d \in {Given(v) : v \in DepthValues} \cup {Absent},
        g \in {Given(Graph(1, 0)), Absent}}

\* try_onnx: preprocess_for_onnx(state_dot_files, depths, goal_dot_files,
\* bitmask=bitmask)
BuildFeed ==
    /\ out = NotRun
    /\ \E b \in FeedInputs, bitmask \in BOOLEAN :
          /\ batch' = b
          /\ out' = preprocess_for_onnx(StateFiles(b), Depths(b),
                                        GoalFiles(b), bitmask)
    /\ UNCHANGED <<encVars, normVars, ckptVars, restVars>>

NextExport ==
    \/ SelectModel
    \/ LoadModel
    \/ ToOnnx
    \/ BuildFeed

SpecExport == Init /\ [][NextExport]_vars

\* the names the scheme and the flags call for
ExpectedNames(bits, with_goal, with_depth) ==
    LET nodes == IF bits THEN "node_bits" ELSE "node_ids"
        side(p) == {p \o "_" \o nodes, p \o "_edge_index", p \o "_edge_attr",
                    p \o "_batch"}
    IN  side("state") \cup (IF with_goal THEN side("goal") ELSE {})
        \cup (IF with_depth THEN {"depth"} ELSE {})

ExpectedDtype(k) ==
    CASE k \in {"state_node_bits", "goal_node_bits"}     -> "uint8"
      [] k \in {"state_edge_index", "goal_edge_index",
                "state_batch", "goal_batch"}             -> "int64"
      [] OTHER                                           -> "float32"

Declared(e) == {e.input_names[i] : i \in 1..Len(e.input_names)}

DeclaredDtype(e, k) ==
    e.dummy_inputs[CHOOSE i \in 1..Len(e.input_names) : e.input_names[i] = k].dtype

\* the feed was built for the flags of the export
SameFlags(e, o) ==
    /\ o.op = "preprocess_for_onnx" /\ o.error = NoError
    /\ o.bitmask = (e.bit_input # Absent)
    /\ (GoalFiles(batch) # Absent) = e.with_goal
    /\ (Depths(batch) # Absent) = e.with_depth

\* C13: the names and dtypes to_onnx declares are those of the scheme and
\* the flags, they are the keys and dtypes of the feed preprocess_for_onnx
\* builds for the same flags, and every axis sized by a node count, an
\* edge count or the batch is dynamic.
Inv_C13_InputContract ==
    Ran(exported) =>
        /\ Len(exported.input_names) = Cardinality(Declared(exported))
        /\ Declared(exported) =
              ExpectedNames(exported.bit_input # Absent, exported.with_goal,
                            exported.with_depth)
        /\ \A k \in Declared(exported) :
              DeclaredDtype(exported, k) = ExpectedDtype(k)
        /\ SameFlags(exported, out) =>
              /\ DOMAIN out.feed = Declared(exported)
              /\ \A k \in DOMAIN out.feed :
                    FeedDtype(k) = DeclaredDtype(exported, k)
        /\ \A i \in 1..Len(exported.input_names) :
              \A a \in 1..Len(exported.dummy_inputs[i].shape) :
                 exported.dummy_inputs[i].shape[a].role
                        \notin {"2", "1", "bit_len"}
                    => (a - 1) \in exported.dynamic_axes[i]

Witness_C13 ==
    /\ Ran(exported) /\ exported.bit_input # Absent
    /\ exported.with_goal /\ SameFlags(exported, out)

(***************************************************************************)
(* SpecSample: the depth argument through the sample builders and the      *)
(* collation of the sample.                                                *)
(***************************************************************************)
\* the depth arguments given to a builder (None, 0 and a positive depth)
DepthArgs == {Absent, Given(0), Given(5)}

\* the depths lists given to preprocess_for_onnx for one or two files
DepthLists == {Absent, Given(<<>>), Given(<<0>>), Given(<<5>>), Given(<<0, 5>>)}

\* make_prediction._preprocess_sample: depth is a required argument and the
\* entry is always set; torch.tensor([None]) raises
MP_preprocess_sample(sg, depth, target, gg) ==
    IF depth = Absent THEN [op |-> "_preprocess_sample", error |-> "RuntimeError"]
    ELSE [op |-> "_preprocess_sample", error |-> NoError,
          entries |-> MkSample(sg, depth, target, gg)]

\* preprocess_sample(state_path, depth, target, goal_path) of lib/gnn_handler
\* and of lib/RL
PreprocessSampleArgs ==
    /\ sample = NotRun
    /\ \E sg \in StateGraphs, depth \in DepthArgs, goal \in BOOLEAN,
          target \in {Absent, Given(1)} :
          sample' = [op |-> "preprocess_sample", error |-> NoError,
                     depth |-> depth,
                     entries |-> MkSample(sg, depth, target,
                                   IF goal THEN Given(Graph(1, 0)) ELSE Absent)]
    /\ UNCHANGED <<collVars, encVars, normVars, ckptVars, smpOthers>>

\* _build_sample(state_path, depth, goal_path) of make_prediction
MP_PreprocessSample ==
    /\ sample = NotRun
    /\ \E sg \in StateGraphs, depth \in DepthArgs, goal \in BOOLEAN :
          sample' = [f \in {"depth"} \cup DOMAIN MP_preprocess_sample(sg, depth, Absent, Absent) |->
                       IF f = "depth" THEN depth
                       ELSE MP_preprocess_sample(sg, depth, Absent,
                               IF goal THEN Given(Graph(1, 0)) ELSE Absent)[f]]
    /\ UNCHANGED <<collVars, encVars, normVars, ckptVars, smpOthers>>

\* lib/RL preprocess_for_onnx(state_dot_files, depths, goal_dot_files)
RL_BuildFeed ==
    /\ sample = NotRun
    /\ \E B \in 1..2, depths \in DepthLists :
          LET r == RL_preprocess_for_onnx([i \in 1..B |-> Graph(1, 0)], depths,
                                          Absent)
          IN  sample' = [f \in {"depth"} \cup DOMAIN r |->
                           IF f = "depth" THEN depths ELSE r[f]]
    /\ UNCHANGED <<collVars, encVars, normVars, ckptVars, smpOthers>>

\* graph_collate_fn([sample]) as predict_single does
CollateSample ==
    /\ sample # NotRun /\ sample.error = NoError
    /\ "entries" \in DOMAIN sample
    /\ out = NotRun
    /\ batch' = <<sample.entries>>
    /\ out' = graph_collate_fn(batch')
    /\ UNCHANGED <<sample, encVars, normVars, ckptVars, smpOthers>>

NextSample ==
    \/ PreprocessSampleArgs
    \/ MP_PreprocessSample
    \/ RL_BuildFeed
    \/ CollateSample

SpecSample == Init /\ [][NextSample]_vars

\* C16: a builder that returns has put a depth entry in its result exactly
\* when a depth argument was given (depth 0 included), the entry being the
\* length-1 tensor of the depth, and the collated batch has a depth exactly
\* when the sample has one.
Inv_C16_DepthEntryIffSupplied ==
    (Ran(sample) /\ sample.error = NoError) =>
        /\ "entries" \in DOMAIN sample =>
              /\ ("depth" \in DOMAIN sample.entries) <=> (sample.depth # Absent)
              /\ sample.depth # Absent =>
                    sample.entries["depth"] = <<sample.depth[1]>>
              /\ (Ran(out) /\ out.error = NoError) =>
                    (out.depth # Absent) <=> (sample.depth # Absent)
        /\ "feed" \in DOMAIN sample =>
              ("depth" \in DOMAIN sample.feed) <=> (sample.depth # Absent)

\* ---------------------------------------------------------------------------
\* Loading DOT text: re-quoting of bare negative integers
\* (lib/RL/utils.py _NEG_ID_RE and _load_dot, lib/RL/make_prediction.py
\* _load_graph_from_dot, lib/gnn_handler/src/utils.py _load_dot).
\* A text is a sequence of characters over a small alphabet: a minus sign, a
\* digit, a letter, a double quote and a space.
\* ---------------------------------------------------------------------------
MaxTextLen == 4

Alphabet == {"-", "1", "a", Quote, " "}

Texts == UNION {[1..n -> Alphabet] : n \in 0..MaxTextLen}

IsWord(c) == IsDigit(c) \/ c = "a"

\* the character class [\w"] of both regular expressions
WordOrQuote(c) == IsWord(c) \/ c = Quote

RECURSIVE DigitsEnd(_, _)
\* index of the last character of the longest digit run starting at i
DigitsEnd(t, i) ==
    IF i <= Len(t) /\ IsDigit(t[i]) THEN DigitsEnd(t, i + 1) ELSE i - 1

\* lookbehind (?<![\w"]) before position i, lookahead (?![\w"]) after e
NotAfterWord(t, i) == i = 1 \/ ~WordOrQuote(t[i - 1])

NotBeforeWord(t, e) == e = Len(t) \/ ~WordOrQuote(t[e + 1])

\* _NEG_ID_RE = (?<![\w"])-\d+(?![\w"]) : end of the match starting at i, or
\* 0 when there is none (a shorter digit run is followed by a digit, so the
\* longest run is the only candidate)
NEG_ID_RE(t, i) ==
    IF /\ i <= Len(t) /\ t[i] = "-"
       /\ NotAfterWord(t, i)
       /\ DigitsEnd(t, i + 1) > i
       /\ NotBeforeWord(t, DigitsEnd(t, i + 1))
    THEN DigitsEnd(t, i + 1) ELSE 0

\* make_prediction's pattern (?<![\w"]) (-\d+)(?![\w"]) : the match starts at
\* a space, which the replacement "\1" drops
MP_NEG_RE(t, i) ==
    IF /\ i < Len(t) /\ t[i] = " " /\ t[i + 1] = "-"
       /\ NotAfterWord(t, i)
       /\ DigitsEnd(t, i + 2) > i + 1
       /\ NotBeforeWord(t, DigitsEnd(t, i + 2))
    THEN DigitsEnd(t, i + 2) ELSE 0

RECURSIVE RL_sub(_, _)
\* _NEG_ID_RE.sub(lambda m: f'"{m.group(0)}"', src), scanning from i
RL_sub(t, i) ==
    IF i > Len(t) THEN <<>>
    ELSE IF NEG_ID_RE(t, i) > 0
         THEN <<Quote>> \o SubSeq(t, i, NEG_ID_RE(t, i)) \o <<Quote>>
                  \o RL_sub(t, NEG_ID_RE(t, i) + 1)
         ELSE <<t[i]>> \o RL_sub(t, i + 1)

RECURSIVE MP_sub(_, _)
\* re.sub(r'(?<![\w"]) (-\d+)(?![\w"])', r'"\1"', content), scanning from i
MP_sub(t, i) ==
    IF i > Len(t) THEN <<>>
    ELSE IF MP_NEG_RE(t, i) > 0
         THEN <<Quote>> \o SubSeq(t, i + 1, MP_NEG_RE(t, i)) \o <<Quote>>
                  \o MP_sub(t, MP_NEG_RE(t, i) + 1)
         ELSE <<t[i]>> \o MP_sub(t, i + 1)

\* the text each loader hands to the DOT parser
GH_load_dot(t) == t

RL_load_dot(t, quote_neg) == IF quote_neg THEN RL_sub(t, 1) ELSE t

MP_load_graph_from_dot(t, is_goal) == IF is_goal THEN MP_sub(t, 1) ELSE t

Requoting(loader, quoting, t) ==
    CASE loader = "gnn_handler" -> GH_load_dot(t)
      [] loader = "RL" -> RL_load_dot(t, quoting)
      [] OTHER -> MP_load_graph_from_dot(t, quoting)

Loading(loader, kind, quoting, t) ==
    [op |-> "load_dot", loader |-> loader, kind |-> kind, quoting |-> quoting,
     text |-> t, once |-> Requoting(loader, quoting, t),
     loaded |-> Requoting(loader, quoting, t), passes |-> 1]

\* lib/gnn_handler preprocess_sample / preprocess_for_onnx: state and goal
GH_LoadDot ==
    /\ TxtIdle
    /\ \E t \in Texts, kind \in {"state", "goal"} :
          src' = Loading("gnn_handler", kind, FALSE, t)
    /\ UNCHANGED <<collVars, encVars, normVars, ckptVars, txtOthers>>

\* lib/RL preprocess_sample: fix = "merged" in state_path for the state file,
\* True for the goal file; preprocess_for_onnx always passes True
RL_LoadDot ==
    /\ TxtIdle
    /\ \E t \in Texts, kind \in {"state", "goal"}, merged \in BOOLEAN :
          /\ kind = "goal" => merged
          /\ src' = Loading("RL", kind, merged, t)
    /\ UNCHANGED <<collVars, encVars, normVars, ckptVars, txtOthers>>

\* lib/RL/make_prediction _preprocess_sample: is_goal only for the goal file
MP_LoadGraphFromDot ==
    /\ TxtIdle
    /\ \E t \in Texts, kind \in {"state", "goal"} :
          src' = Loading("make_prediction", kind, kind = "goal", t)
    /\ UNCHANGED <<collVars, encVars, normVars, ckptVars, txtOthers>>

\* the loader's re-quoting applied to its own output
RequoteAgain ==
    /\ Ran(src) /\ src.passes = 1
    /\ src' = [src EXCEPT !.loaded = Requoting(src.loader, src.quoting, @),
                          !.passes = 2]
    /\ UNCHANGED <<collVars, encVars, normVars, ckptVars, txtOthers>>

NextText ==
    \/ GH_LoadDot
    \/ RL_LoadDot
    \/ MP_LoadGraphFromDot
    \/ RequoteAgain

SpecText == Init /\ [][NextText]_vars

\* a bare negative-integer token that is not already quoted, as _NEG_ID_RE
\* recognises it
HasBareNegative(t) == \E i \in 1..Len(t) : NEG_ID_RE(t, i) > 0

\* C20: every load path hands the parser a text with no bare negative
\* integer left in it, a text without one is handed over unchanged, and a
\* second pass of the re-quoting changes nothing.
Inv_C20_RequoteEveryPath ==
    Ran(src) =>
        /\ ~HasBareNegative(src.once)
        /\ ~HasBareNegative(src.text) => src.once = src.text
        /\ src.passes = 2 => src.loaded = src.once

\* ---------------------------------------------------------------------------
\* Concurrent invocations of lib/RL/make_prediction.py
\* predict_from_paths_single: each loads the state file, patches the goal file
\* into fixed_<name> beside it, parses the patched file and appends to
\* error.log.  Path.write_text opens the file for writing (which empties it)
\* and writes the text afterwards, so the two are separate steps.
\* ---------------------------------------------------------------------------
Procs == {1, 2}

StatePath == "s.dot"

GoalPaths == {"g.dot", "h.dot"}

GoalArgs == {Absent} \cup {Given(g) : g \in GoalPaths}

\* dot_path.with_name("fixed_" + dot_path.name)
FixedName(path) == IF path = "g.dot" THEN "fixed_g.dot" ELSE "fixed_h.dot"

FileNames == {StatePath} \cup GoalPaths \cup {FixedName(g) : g \in GoalPaths}

GoalTexts == {<<" ", "-", "1">>, <<"a">>}

StateText == <<"a", " ", "a">>

InitialFiles(tg, th) ==
    [f \in FileNames |->
        CASE f = StatePath -> Given(StateText)
          [] f = "g.dot" -> Given(tg)
          [] f = "h.dot" -> Given(th)
          [] OTHER -> Absent]

Invocation(goal) ==
    [pc |-> "load_state", goal |-> goal, content |-> Absent,
     state_text |-> Absent, goal_text |-> Absent]

\* two invocations are started on a filesystem holding the input files
StartInvocations ==
    /\ ConIdle
    /\ \E tg \in GoalTexts, th \in GoalTexts, g1 \in GoalArgs, g2 \in GoalArgs :
          /\ fs' = [op |-> "filesystem", initial |-> InitialFiles(tg, th),
                    files |-> InitialFiles(tg, th), error_log |-> <<>>]
          /\ procs' = [op |-> "invocations",
                       of |-> [p \in Procs |->
                                  Invocation(IF p = 1 THEN g1 ELSE g2)]]
    /\ UNCHANGED <<collVars, encVars, normVars, ckptVars, conOthers>>

At(p, pc) == Ran(procs) /\ procs.of[p].pc = pc

\* _load_graph_from_dot(state_path, is_goal=False): read_dot on the file
LoadState(p) ==
    /\ At(p, "load_state")
    /\ procs' = [procs EXCEPT
                    !.of[p].state_text = fs.files[StatePath],
                    !.of[p].pc = IF procs.of[p].goal = Absent
                                 THEN "log" ELSE "read_goal"]
    /\ UNCHANGED <<fs, collVars, encVars, normVars, ckptVars, conOthers>>

\* with open(dot_path, "r") as f: content = f.read()
ReadGoal(p) ==
    /\ At(p, "read_goal")
    /\ procs' = [procs EXCEPT
                    !.of[p].content = fs.files[procs.of[p].goal[1]],
                    !.of[p].pc = "open_fixed"]
    /\ UNCHANGED <<fs, collVars, encVars, normVars, ckptVars, conOthers>>

\* fixed_path.write_text(content): the file is created or emptied on open
OpenFixed(p) ==
    /\ At(p, "open_fixed")
    /\ fs' = [fs EXCEPT !.files[FixedName(procs.of[p].goal[1])] = Given(<<>>)]
    /\ procs' = [procs EXCEPT !.of[p].pc = "write_fixed"]
    /\ UNCHANGED <<collVars, encVars, normVars, ckptVars, conOthers>>

\* ... and the patched text is written when the file is closed
WriteFixed(p) ==
    /\ At(p, "write_fixed")
    /\ fs' = [fs EXCEPT !.files[FixedName(procs.of[p].goal[1])] =
                           Given(MP_sub(procs.of[p].content[1], 1))]
    /\ procs' = [procs EXCEPT !.of[p].pc = "parse_goal"]
    /\ UNCHANGED <<collVars, encVars, normVars, ckptVars, conOthers>>

\* read_dot(str(fixed_path)): the goal graph comes from the patched file
ParseGoal(p) ==
    /\ At(p, "parse_goal")
    /\ procs' = [procs EXCEPT
                    !.of[p].goal_text =
                        fs.files[FixedName(procs.of[p].goal[1])],
                    !.of[p].pc = "log"]
    /\ UNCHANGED <<fs, collVars, encVars, normVars, ckptVars, conOthers>>

\* with open("error.log", "a+") as f: print(f"path: {sample}", file=f)
AppendErrorLog(p) ==
    /\ At(p, "log")
    /\ fs' = [fs EXCEPT !.error_log = Append(@, p)]
    /\ procs' = [procs EXCEPT !.of[p].pc = "done"]
    /\ UNCHANGED <<collVars, encVars, normVars, ckptVars, conOthers>>

NextConcurrent ==
    \/ StartInvocations
    \/ \E p \in Procs : LoadState(p)
    \/ \E p \in Procs : ReadGoal(p)
    \/ \E p \in Procs : OpenFixed(p)
    \/ \E p \in Procs : WriteFixed(p)
    \/ \E p \in Procs : ParseGoal(p)
    \/ \E p \in Procs : AppendErrorLog(p)

SpecConcurrent == Init /\ [][NextConcurrent]_vars

\* what an invocation running alone parses for its goal
AloneGoalText(goal) ==
    IF goal = Absent THEN Absent ELSE Given(MP_sub(fs.initial[goal[1]][1], 1))

ReadOnlyFilesystem == fs.files = fs.initial /\ fs.error_log = <<>>

NoInterference ==
    \A p \in Procs :
        At(p, "done") =>
            /\ procs.of[p].state_text = fs.initial[StatePath]
            /\ procs.of[p].goal_text = AloneGoalText(procs.of[p].goal)

\* C17: concurrent invocations never interfere (each finishes with what it
\* would have loaded running alone) and the pipeline only reads from the
\* filesystem: no file is created, rewritten or appended to.
Inv_C17_ReadOnlyNoInterference ==
    Ran(fs) => ReadOnlyFilesystem /\ NoInterference

\* ---------------------------------------------------------------------------
\* Shape and range of what the builders return
\* (lib/gnn_handler/src/utils.py preprocess_sample asserts,
\* preprocess_for_onnx "extra sanity checks to avoid Gather OOB").
\* ---------------------------------------------------------------------------
\* one edge_attr row per edge_index column, every end of an edge a node
EdgesMatchNodes(comb) ==
    /\ Len(comb.edge_index) = Len(comb.edge_attr)
    /\ \A k \in 1..Len(comb.edge_index) :
          \A x \in {comb.edge_index[k][1], comb.edge_index[k][2]} :
              0 <= x /\ x < Len(comb.nodes)

MaxLabelLen == 3

LabelAlphabet == {Quote, "1", "3", "x", "-"}

\* d.get("label"): no label attribute, or its text (pydot keeps the quotes)
LabelAttrs ==
    {Absent} \cup
    {Given(t) : t \in UNION {[1..n -> LabelAlphabet] : n \in 0..MaxLabelLen}}

\* an edge of the loaded graph, with its label attribute
LoadEdge ==
    /\ elabel = NotRun
    /\ \E l \in LabelAttrs :
          elabel' = [op |-> "load", label |-> l, train |-> NotRun,
                     onnx |-> NotRun]
    /\ UNCHANGED <<coreVars, dotfile, retry, binding, trainer, optim, workers>>

\* _nx_to_pyg: int(str(d.get("label", "0")).replace('"', ""))
NxToPygLabel ==
    /\ Ran(elabel) /\ elabel.train = NotRun
    /\ elabel' = [elabel EXCEPT !.train =
                     [op |-> "_nx_to_pyg"] @@
                     int_of_str(CleanLabel(LabelText(elabel), "replace"))]
    /\ UNCHANGED <<coreVars, dotfile, retry, binding, trainer, optim, workers>>

\* _parse_dot_*: int(str(d.get("label", "0")).strip('"'))
ParseDotLabel ==
    /\ Ran(elabel) /\ elabel.onnx = NotRun
    /\ elabel' = [elabel EXCEPT !.onnx =
                     [op |-> "_parse_dot"] @@
                     int_of_str(CleanLabel(LabelText(elabel), "strip"))]
    /\ UNCHANGED <<coreVars, dotfile, retry, binding, trainer, optim, workers>>

NextLabel ==
    \/ LoadEdge
    \/ NxToPygLabel
    \/ ParseDotLabel

SpecLabel == Init /\ [][NextLabel]_vars

\* the integer a label attribute stands for: that of its text without the
\* quote characters, and 0 when there is no label or the text is no integer
ResolvedLabel(l) ==
    LET parsed_int == int_of_str(Remove(LabelText([label |-> l]), Quote))
    IN  IF parsed_int.error = NoError THEN parsed_int.value
        ELSE PyInt(FALSE, <<>>)

ResolvesTo(r, v) == Ran(r) => (r.error = NoError /\ r.value = v)

\* C21: both parsers resolve every edge label, to the integer of its text
\* without the quote characters and to 0 when the label is absent or is not
\* an integer, and so to the same value.
Inv_C21_LabelResolved ==
    Ran(elabel) =>
        /\ ResolvesTo(elabel.train, ResolvedLabel(elabel.label))
        /\ ResolvesTo(elabel.onnx, ResolvedLabel(elabel.label))

\* ---------------------------------------------------------------------------
\* From the declarations of a DOT file to the loaded graph.
\* lib/gnn_handler and lib/RL/utils.py: nx.nx_pydot.from_pydot(dot), which
\* builds a MultiDiGraph unless the file says "strict"; make_prediction:
\* nx.DiGraph(nx.nx_pydot.read_dot(path)), which keeps one edge per ordered
\* pair of nodes.
\* ---------------------------------------------------------------------------
MaxDeclEdges == 3

DeclNodes == <<0, 1>>

DeclEdge(u, v, l) == [u |-> u, v |-> v, label |-> l]

DeclEdgeChoices ==
    {DeclEdge(0, 1, "1"), DeclEdge(0, 1, "3"), DeclEdge(1, 0, "1"),
     DeclEdge(0, 0, "1")}

DeclEdgeLists == UNION {[1..n -> DeclEdgeChoices] : n \in 0..MaxDeclEdges}

RECURSIVE Dedup(_)
\* the distinct elements of a sequence, in the order they first occur
Dedup(q) ==
    IF q = <<>> THEN <<>>
    ELSE LET d == Dedup(SubSeq(q, 1, Len(q) - 1))
         IN  IF \E i \in 1..Len(d) : d[i] = q[Len(q)] THEN d
             ELSE Append(d, q[Len(q)])

From(es, u) == SelectSeq(es, LAMBDA e : e.u = u)

Between(es, u, v) == SelectSeq(es, LAMBDA e : e.u = u /\ e.v = v)

\* the successors of u in the order their first edge was added
Successors(es, u) == Dedup([i \in 1..Len(From(es, u)) |-> From(es, u)[i].v])

RECURSIVE Flatten(_)
Flatten(qs) == IF qs = <<>> THEN <<>> ELSE Head(qs) \o Flatten(Tail(qs))

\* MultiDiGraph.edges(data=True): by source node, then by successor, every
\* edge between the two in the order added
MultiDiGraphEdges(nodes, es) ==
    Flatten([n \in 1..Len(nodes) |->
        Flatten([k \in 1..Len(Successors(es, nodes[n])) |->
            Between(es, nodes[n], Successors(es, nodes[n])[k])])])

\* DiGraph.edges(data=True): one edge per ordered pair; adding an edge that
\* exists updates its attributes, so the label is the last one given
DiGraphEdges(nodes, es) ==
    Flatten([n \in 1..Len(nodes) |->
        [k \in 1..Len(Successors(es, nodes[n])) |->
            LET same == Between(es, nodes[n], Successors(es, nodes[n])[k])
            IN  same[Len(same)]]])

\* nx.nx_pydot.from_pydot(P)
from_pydot(f) ==
    [multigraph |-> ~f.strict,
     nodes |-> f.nodes,
     edges |-> IF f.strict THEN DiGraphEdges(f.nodes, f.edges)
               ELSE MultiDiGraphEdges(f.nodes, f.edges)]

\* nx.DiGraph(G)
DiGraph(Gx) ==
    [multigraph |-> FALSE, nodes |-> Gx.nodes,
     edges |-> DiGraphEdges(Gx.nodes, Gx.edges)]

\* lib/gnn_handler and lib/RL/utils.py _load_dot
load_dot(f) == from_pydot(f)

\* lib/RL/make_prediction.py _load_graph_from_dot, before the relabelling
load_graph_from_dot(f) == DiGraph(from_pydot(f))

\* a file with its node and edge statements
DeclareFile ==
    /\ dotfile = NotRun
    /\ \E strict \in BOOLEAN, es \in DeclEdgeLists :
          dotfile' = [op |-> "file", strict |-> strict, nodes |-> DeclNodes,
                      edges |-> es, loader |-> "none", graph |-> NotRun]
    /\ UNCHANGED <<coreVars, elabel, retry, binding, trainer, optim, workers>>

GH_LoadFile ==
    /\ Ran(dotfile) /\ dotfile.graph = NotRun
    /\ dotfile' = [dotfile EXCEPT !.loader = "gnn_handler",
                                  !.graph = load_dot(dotfile)]
    /\ UNCHANGED <<coreVars, elabel, retry, binding, trainer, optim, workers>>

RL_LoadFile ==
    /\ Ran(dotfile) /\ dotfile.graph = NotRun
    /\ dotfile' = [dotfile EXCEPT !.loader = "RL",
                                  !.graph = load_dot(dotfile)]
    /\ UNCHANGED <<coreVars, elabel, retry, binding, trainer, optim, workers>>

MP_LoadFile ==
    /\ Ran(dotfile) /\ dotfile.graph = NotRun
    /\ dotfile' = [dotfile EXCEPT !.loader = "make_prediction",
                                  !.graph = load_graph_from_dot(dotfile)]
    /\ UNCHANGED <<coreVars, elabel, retry, binding, trainer, optim, workers>>

NextLoad ==
    \/ DeclareFile
    \/ GH_LoadFile
    \/ RL_LoadFile
    \/ MP_LoadFile

SpecLoad == Init /\ [][NextLoad]_vars

Occurrences(es, e) == Len(SelectSeq(es, LAMBDA x : x = e))

KeepsEverything(f, Gx) ==
    /\ \A n \in 1..Len(f.nodes) : \E m \in 1..Len(Gx.nodes) : Gx.nodes[m] = f.nodes[n]
    /\ \A e \in DeclEdgeChoices : Occurrences(Gx.edges, e) = Occurrences(f.edges, e)

\* C22: the graph a loader returns for a file (one not marked strict, in
\* which parallel edges are edges of their own) has every declared node
\* and every declared edge, parallel edges with different labels included,
\* as often as the file declares it.
Inv_C22_NothingDropped ==
    (Ran(dotfile) /\ dotfile.graph # NotRun /\ ~dotfile.strict) =>
        KeepsEverything(dotfile, dotfile.graph)

\* ---------------------------------------------------------------------------
\* scripts/gnn_exp/create_training_data.py: process_file_with_retries on one
\* instance.  One step is one pass of the loop over the seeds.
\* ---------------------------------------------------------------------------
MaxSeeds == 3

SeedValues == {42, 1337}

\* what parse_seeds can return: a list of integers, possibly empty
SeedLists == UNION {[1..n -> SeedValues] : n \in 0..MaxSeeds}

\* exit_code of run_cpp_once; the except branch sets -999
ExceptionCode == 0 - 999

ExitCodes == {0, 2, 3, 1, ExceptionCode}

InstanceName == "p1"

\* what the success branch can meet: the planner output without the
\* "Dataset stored in ... folder." line, postprocess_and_move_output raising
\* before the move, raising after it, or everything going through
SuccessBranches == {"no_folder_line", "move_failed", "patch_failed", "stored"}

NoTarget == [dataset |-> FALSE, dataset_log |-> Absent, seeds_txt |-> Absent]

\* _write_dataset_summary_logs: dataset_log.json and SEEDS.txt
write_dataset_summary_logs(instance_name, success_seed, failed_attempts, attempt_logs) ==
    [dataset |-> TRUE,
     dataset_log |-> Given([instance |-> instance_name,
                            success_seed |-> success_seed,
                            failed_seeds |-> failed_attempts,
                            attempt_logs |-> attempt_logs]),
     seeds_txt |-> Given([instance |-> instance_name,
                          success_seed |-> success_seed,
                          failed_seeds |-> failed_attempts])]

\* f"{safe_instance}__seed_{seed}.log"
AttemptLogName(instance_name, seed) == <<instance_name, seed>>

StartInstance ==
    /\ retry = NotRun
    /\ \E seeds \in SeedLists :
          retry' = [op |-> "process_file_with_retries", seeds |-> seeds,
                    calls |-> <<>>, codes |-> <<>>, failed_seeds |-> <<>>,
                    attempt_log_paths |-> <<>>,
                    returned |-> seeds = <<>>, branch |-> "none",
                    failed_items |-> <<>>, target |-> NoTarget]
    /\ UNCHANGED <<coreVars, elabel, dotfile, binding, trainer, optim, workers>>

\* the record written when every seed ended with exit code 3
NoGoalsRecord(seeds) ==
    [instance |-> InstanceName, reason |-> "no_goals_all_seeds",
     seeds_tried |-> seeds]

\* the record written for an exit code other than 0, 2 and 3
FailureRecord(exit_code, seed, attempt_idx) ==
    [instance |-> InstanceName, reason |-> "failure_exit",
     exit_code |-> exit_code, seed |-> seed, attempt |-> attempt_idx]

\* "failed_seeds.append(seed)" in the exit-code-3 branch
FailedAfter_Dropped(failed_seeds, seed) == failed_seeds

FailedAfter(failed_seeds, seed) == Append(failed_seeds, seed)

\* "if attempt_idx < len(seeds): continue" in the exit-code-3 branch
RetryAfterNoGoals_Never(attempt_idx, seeds) == FALSE

RetryAfterNoGoals(attempt_idx, seeds) == attempt_idx < Len(seeds)

\* "elif exit_code == 3", reached when the code is neither 0 nor 2
IsNoGoals_AnyFailure(exit_code) == TRUE

IsNoGoals(exit_code) == exit_code = 3

\* one pass of "for attempt_idx, seed in enumerate(seeds, start=1)"
Attempt ==
    /\ Ran(retry) /\ ~retry.returned
    /\ \E exit_code \in ExitCodes :
        LET attempt_idx == Len(retry.calls) + 1
            seed == retry.seeds[attempt_idx]
            logs == Append(retry.attempt_log_paths,
                           AttemptLogName(InstanceName, seed))
            ran == [retry EXCEPT !.calls = Append(@, seed),
                                 !.codes = Append(@, exit_code),
                                 !.attempt_log_paths = logs]
        IN  IF exit_code \in {0, 2}
            THEN \E branch \in SuccessBranches :
                 retry' = [ran EXCEPT
                    !.returned = TRUE,
                    !.branch = branch,
                    !.target =
                        CASE branch = "stored" ->
                               write_dataset_summary_logs(InstanceName, seed,
                                   retry.failed_seeds, logs)
                          [] branch = "patch_failed" ->
                               [NoTarget EXCEPT !.dataset = TRUE]
                          [] OTHER -> NoTarget]
            ELSE IF IsNoGoals(exit_code)
                    THEN IF RetryAfterNoGoals(attempt_idx, retry.seeds)
                         THEN retry' = [ran EXCEPT
                                 !.failed_seeds = FailedAfter(@, seed)]
                         ELSE retry' = [ran EXCEPT
                                 !.failed_seeds = FailedAfter(@, seed),
                                 !.returned = TRUE,
                                 !.branch = "no_goals_all_seeds",
                                 !.failed_items =
                                     Append(@, NoGoalsRecord(retry.seeds))]
                    ELSE retry' = [ran EXCEPT
                            !.returned = TRUE,
                            !.branch = "failure",
                            !.failed_items =
                                Append(@, FailureRecord(exit_code, seed,
                                                        attempt_idx))]
    /\ UNCHANGED <<coreVars, elabel, dotfile, binding, trainer, optim, workers>>

NextRetry ==
    \/ StartInstance
    \/ Attempt

SpecRetry == Init /\ [][NextRetry]_vars

LastCode == retry.codes[Len(retry.codes)]

InGivenOrder == retry.calls = SubSeq(retry.seeds, 1, Len(retry.calls))

SeedsRemain == Len(retry.calls) < Len(retry.seeds)

Inv_C24_SummaryMatchesAttempts ==
    (Ran(retry) /\ retry.branch = "stored") =>
        /\ retry.target.dataset
        /\ retry.target.dataset_log # Absent
        /\ retry.target.seeds_txt # Absent
        /\ \A summary \in {retry.target.dataset_log[1],
                            retry.target.seeds_txt[1]} :
              /\ summary.success_seed = retry.calls[Len(retry.calls)]
              /\ summary.failed_seeds =
                    SubSeq(retry.calls, 1, Len(retry.calls) - 1)

\* a dataset stored at the third attempt, after two different seeds failed
Witness_C24 ==
    /\ Ran(retry) /\ retry.branch = "stored"
    /\ Len(retry.calls) = 3
    /\ retry.calls[1] # retry.calls[2]
    /\ retry.target.seeds_txt[1].failed_seeds # <<>>

\* C28: when the function has returned without a stored dataset, whatever
\* the reason, failed_items.jsonl has a record for the instance.
Inv_C28_FailureRecorded ==
    (Ran(retry) /\ retry.returned /\ retry.branch # "stored") =>
        \E k \in 1..Len(retry.failed_items) :
            retry.failed_items[k].instance = InstanceName

Threads == {1, 2}

\* os.path.splitext(os.path.basename(file_path))[0] of the training files
InstanceNames == {<<"a", " ", "b">>, <<"a", "_", "b">>, <<"c">>}

\* re.sub(r"[^a-zA-Z0-9._-]", "_", name)
safe_instance_name(name) ==
    [i \in 1..Len(name) |->
        IF name[i] \in {"a", "b", "c", "_"} THEN name[i] ELSE "_"]

FirstSeed == 42

\* os.path.join(logs_dir, f"{safe_instance}__seed_{seed}.log")
LogPath(name, seed) == <<safe_instance_name(name), seed>>

LogPaths == {LogPath(n, FirstSeed) : n \in InstanceNames}

\* executor.submit(wrapper, file_path) for two files of the folder
SubmitFiles ==
    /\ workers = NotRun
    /\ \E n1 \in InstanceNames, n2 \in InstanceNames, c1 \in {0, 1}, c2 \in {0, 1} :
          /\ n1 # n2
          /\ workers' =
               [op |-> "run_cpp_on_training_files_multithreaded",
                LOG_LOCK |-> Absent,
                logs |-> [lp \in LogPaths |-> Absent],
                failed_items |-> <<>>,
                thread |-> [t \in Threads |->
                    [pc |-> "save_attempt_log",
                     instance |-> IF t = 1 THEN n1 ELSE n2,
                     exit_code |-> IF t = 1 THEN c1 ELSE c2,
                     holds |-> FALSE, saved |-> FALSE, recorded |-> FALSE]]]
    /\ UNCHANGED <<coreVars, elabel, dotfile, retry, binding, trainer, optim>>

InThread(t, pc) == Ran(workers) /\ workers.thread[t].pc = pc

\* "with LOG_LOCK:" on entry
Acquire(t) ==
    /\ Ran(workers)
    /\ workers.thread[t].pc \in {"save_attempt_log", "write_failed_record"}
    /\ ~workers.thread[t].holds
    /\ workers.LOG_LOCK = Absent
    /\ workers' = [workers EXCEPT !.LOG_LOCK = Given(t),
                                  !.thread[t].holds = TRUE]
    /\ UNCHANGED <<coreVars, elabel, dotfile, retry, binding, trainer, optim>>

\* save_attempt_log: open(log_path, "w") and f.write(output)
SaveAttemptLog(t) ==
    /\ InThread(t, "save_attempt_log") /\ workers.thread[t].holds
    /\ workers' = [workers EXCEPT
          !.logs[LogPath(workers.thread[t].instance, FirstSeed)] =
              Given([instance |-> workers.thread[t].instance,
                     seed |-> FirstSeed]),
          !.thread[t].saved = TRUE,
          !.thread[t].pc = "release_log"]
    /\ UNCHANGED <<coreVars, elabel, dotfile, retry, binding, trainer, optim>>

\* write_failed_record: open(path, "a") and f.write(json.dumps(record) + "\n")
WriteFailedRecord(t) ==
    /\ InThread(t, "write_failed_record") /\ workers.thread[t].holds
    /\ workers' = [workers EXCEPT
          !.failed_items =
              Append(@, [instance |-> workers.thread[t].instance,
                         reason |-> "failure_exit",
                         complete |-> TRUE]),
          !.thread[t].recorded = TRUE,
          !.thread[t].pc = "release_record"]
    /\ UNCHANGED <<coreVars, elabel, dotfile, retry, binding, trainer, optim>>

\* leaving "with LOG_LOCK:"; an exit code of 0 ends the instance, any other
\* is taken to the failure branch
Release(t) ==
    /\ Ran(workers)
    /\ workers.thread[t].pc \in {"release_log", "release_record"}
    /\ workers' = [workers EXCEPT
          !.LOG_LOCK = Absent,
          !.thread[t].holds = FALSE,
          !.thread[t].pc =
              IF workers.thread[t].pc = "release_log"
                 /\ workers.thread[t].exit_code # 0
              THEN "write_failed_record" ELSE "done"]
    /\ UNCHANGED <<coreVars, elabel, dotfile, retry, binding, trainer, optim>>

NextWorkers ==
    \/ SubmitFiles
    \/ \E t \in Threads : Acquire(t)
    \/ \E t \in Threads : SaveAttemptLog(t)
    \/ \E t \in Threads : WriteFailedRecord(t)
    \/ \E t \in Threads : Release(t)

SpecWorkers == Init /\ [][NextWorkers]_vars

\* failed_items.jsonl is one complete record per call made so far
OneRecordPerCall ==
    /\ Len(workers.failed_items) =
          Cardinality({t \in Threads : workers.thread[t].recorded})
    /\ \A k \in 1..Len(workers.failed_items) :
          /\ workers.failed_items[k].complete
          /\ \E t \in Threads :
                /\ workers.thread[t].recorded
                /\ workers.thread[t].instance =
                      workers.failed_items[k].instance

\* the attempt log an instance saved is still that instance's
OwnAttemptLogKept ==
    \A t \in Threads :
        workers.thread[t].saved =>
            workers.logs[LogPath(workers.thread[t].instance, FirstSeed)]
                = Given([instance |-> workers.thread[t].instance,
                         seed |-> FirstSeed])

\* C30: with several worker threads, failed_items.jsonl is one complete
\* record per write_failed_record call, and no attempt log of an instance is
\* overwritten by the attempt log of another instance.
Inv_C30_LogsNotClobbered ==
    Ran(workers) => OneRecordPerCall /\ OwnAttemptLogKept

\* ---------------------------------------------------------------------------
\* to_onnx: torch.onnx.export(wrapper, tuple(dummy_inputs), ...) calls
\* wrapper.forward(*dummy_inputs), so the i-th dummy input is the i-th
\* parameter of forward, whatever name it was declared under.
\* ---------------------------------------------------------------------------
\* the parameters of OnnxDistanceEstimatorWrapperIds.forward and
\* OnnxDistanceEstimatorWrapperBits.forward after self
WrapperParams(bit_input) ==
    <<IF bit_input = Absent THEN "s_node_ids_f32" ELSE "s_node_bits_u8",
      "s_edge_index", "s_edge_attr", "s_batch",
      IF bit_input = Absent THEN "g_node_ids_f32" ELSE "g_node_bits_u8",
      "g_edge_index", "g_edge_attr", "g_batch", "depth">>

ParamRole(param) ==
    CASE param \in {"s_node_ids_f32", "s_node_bits_u8"} -> "state_nodes"
      [] param \in {"g_node_ids_f32", "g_node_bits_u8"} -> "goal_nodes"
      [] param = "s_edge_index" -> "state_edge_index"
      [] param = "s_edge_attr" -> "state_edge_attr"
      [] param = "s_batch" -> "state_batch"
      [] param = "g_edge_index" -> "goal_edge_index"
      [] param = "g_edge_attr" -> "goal_edge_attr"
      [] param = "g_batch" -> "goal_batch"
      [] OTHER -> "depth"

InputRole(name) ==
    CASE name \in {"state_node_ids", "state_node_bits"} -> "state_nodes"
      [] name \in {"goal_node_ids", "goal_node_bits"} -> "goal_nodes"
      [] OTHER -> name

\* forward(*dummy_inputs): positional binding of the inputs to_onnx declared
BindPositional(bit_input, input_names) ==
    [i \in 1..Len(input_names) |->
        [param |-> WrapperParams(bit_input)[i], input |-> input_names[i]]]

\* the input a parameter of the given role received, None if it kept its
\* default
Argument(bound, role) ==
    IF \E i \in 1..Len(bound) : ParamRole(bound[i].param) = role
    THEN Given(bound[CHOOSE i \in 1..Len(bound) :
                        ParamRole(bound[i].param) = role].input)
    ELSE Absent

\* the wrapper's forward on the bound dummy inputs: which input feeds the
\* goal encoder and which the depth column, or the exception of the trace
wrapper_trace(m, bound) ==
    LET g_nodes == Argument(bound, "goal_nodes")
        g_rest == {Argument(bound, "goal_edge_index"),
                   Argument(bound, "goal_edge_attr"),
                   Argument(bound, "goal_batch")}
        goal_used == m.use_goal /\ g_nodes # Absent
        depth == Argument(bound, "depth")
    IN  IF goal_used /\ Absent \in g_rest
        THEN [op |-> "trace",
              error |-> IF m.bit_input = Absent THEN "AttributeError"
                        ELSE "RuntimeError"]
        ELSE [op |-> "trace", error |-> NoError,
              goal_from |-> IF goal_used THEN g_nodes ELSE Absent,
              depth_from |-> IF m.use_depth THEN depth ELSE Absent,
              depth_column |-> m.use_depth]

\* to_onnx on a model, up to the call of the wrapper
ExportWrapper ==
    /\ binding = NotRun
    /\ \E bit_input \in CheckpointBitInputs, use_goal \in BOOLEAN,
          use_depth \in BOOLEAN, with_goal \in BOOLEAN, with_depth \in BOOLEAN :
          binding' =
             [op |-> "to_onnx",
              model |-> [bit_input |-> bit_input, use_goal |-> use_goal,
                         use_depth |-> use_depth],
              with_goal |-> with_goal, with_depth |-> with_depth,
              bound |-> BindPositional(bit_input,
                           to_onnx(bit_input, with_goal, with_depth).input_names),
              traced |-> NotRun, run |-> NotRun]
    /\ UNCHANGED <<coreVars, elabel, dotfile, retry, trainer, optim, workers>>

\* the trace torch.onnx.export makes of wrapper.forward
TraceWrapper ==
    /\ Ran(binding) /\ binding.traced = NotRun
    /\ binding' = [binding EXCEPT
                      !.traced = wrapper_trace(binding.model, binding.bound)]
    /\ UNCHANGED <<coreVars, elabel, dotfile, retry, trainer, optim, workers>>

\* a session run of the exported graph with a value for the input "depth":
\* the depth column the regressor receives
RunSession ==
    /\ Ran(binding) /\ Ran(binding.traced) /\ binding.traced.error = NoError
    /\ binding.with_depth /\ binding.run = NotRun
    /\ \E d \in FwdDepths :
          binding' = [binding EXCEPT !.run =
             [op |-> "run", depth |-> d,
              depth_column |->
                 IF ~binding.traced.depth_column THEN Absent
                 ELSE IF binding.traced.depth_from = Given("depth")
                 THEN Given(d) ELSE Given(0)]]
    /\ UNCHANGED <<coreVars, elabel, dotfile, retry, trainer, optim, workers>>

NextBind ==
    \/ ExportWrapper
    \/ TraceWrapper
    \/ RunSession

SpecBind == Init /\ [][NextBind]_vars

\* C25: whatever with_goal and with_depth are, every dummy input reaches the
\* forward parameter of the role of its declared name; the input named
\* "depth" reaches the parameter depth, and a model that uses the depth
\* receives the depth that was supplied.
Inv_C25_BoundByRole ==
    Ran(binding) =>
        /\ \A i \in 1..Len(binding.bound) :
              ParamRole(binding.bound[i].param)
                  = InputRole(binding.bound[i].input)
        /\ (Ran(binding.run) /\ binding.model.use_depth) =>
              binding.run.depth_column = Given(binding.run.depth)

\* ---------------------------------------------------------------------------
\* BaseModel.train (lib/gnn_handler/src/model.py and lib/RL/utils.py): the
\* best-checkpoint bookkeeping.  One step is one epoch; the model state
\* after the k-th epoch is identified by k, and a val_loss is a small
\* number (the metrics functions reject values that are not finite).
\* ---------------------------------------------------------------------------
MaxEpochs == 4

ValLosses == {1, 2, 3}

\* best_metric = float("inf")
PlusInf == [inf |-> TRUE]

Finite(v) == [inf |-> FALSE, v |-> v]

\* val_metrics["val_loss"] < best_metric
Improves_OrEqual(val_loss, best_metric) ==
    best_metric.inf \/ val_loss <= best_metric.v

Improves(val_loss, best_metric) ==
    best_metric.inf \/ val_loss < best_metric.v

\* f"{checkpoint_dir}/{model_name}.pt" in lib/gnn_handler, best.pt in lib/RL
BestPath(variant) == IF variant = "gnn_handler" THEN "model.pt" ELSE "best.pt"

StartTraining ==
    /\ trainer = NotRun
    /\ \E variant \in {"gnn_handler", "RL"}, n_epochs \in 1..MaxEpochs :
          trainer' = [op |-> "train", variant |-> variant,
                      n_epochs |-> n_epochs, history |-> <<>>,
                      best_metric |-> PlusInf, saved_at |-> {},
                      files |-> [f \in {BestPath(variant)} |-> Absent],
                      finished |-> FALSE]
    /\ UNCHANGED <<coreVars, elabel, dotfile, retry, binding, optim, workers>>

\* _save_full_checkpoint(best_path): the checkpoint of the current model
save_full_checkpoint(files, path, epoch) ==
    [files EXCEPT ![path] = Given([model_state |-> epoch])]

\* one pass of "for _ in pbar": the training batches, evaluate, and the
\* comparison with best_metric
TrainEpoch ==
    /\ Ran(trainer) /\ ~trainer.finished
    /\ Len(trainer.history) < trainer.n_epochs
    /\ \E val_loss \in ValLosses :
        LET epoch == Len(trainer.history) + 1
            better == Improves(val_loss, trainer.best_metric)
        IN  trainer' = [trainer EXCEPT
               !.history = Append(@, val_loss),
               !.best_metric = IF better THEN Finite(val_loss) ELSE @,
               !.saved_at = IF better THEN @ \cup {epoch} ELSE @,
               !.files = IF better
                         THEN save_full_checkpoint(@,
                                  BestPath(trainer.variant), epoch)
                         ELSE @]
    /\ UNCHANGED <<coreVars, elabel, dotfile, retry, binding, optim, workers>>

\* the loop is over: save_and_plot_metrics and return
FinishTraining ==
    /\ Ran(trainer) /\ ~trainer.finished
    /\ Len(trainer.history) = trainer.n_epochs
    /\ trainer' = [trainer EXCEPT !.finished = TRUE]
    /\ UNCHANGED <<coreVars, elabel, dotfile, retry, binding, optim, workers>>

NextTrain ==
    \/ StartTraining
    \/ TrainEpoch
    \/ FinishTraining

SpecTrain == Init /\ [][NextTrain]_vars

\* the epochs whose val_loss is below that of every epoch before them
RecordEpochs(history) ==
    {k \in 1..Len(history) : \A j \in 1..(k - 1) : history[k] < history[j]}

\* the first epoch whose val_loss no epoch undercuts
EarliestBest(history) ==
    CHOOSE k \in 1..Len(history) :
        /\ \A j \in 1..Len(history) : history[k] <= history[j]
        /\ \A j \in 1..(k - 1) : history[j] > history[k]

\* C26: best_metric is the lowest val_loss so far (so it never goes up), the
\* checkpoint was written at exactly the epochs whose val_loss is strictly
\* below that of every earlier epoch, and once training has ended the
\* checkpoint file holds the model of the earliest epoch with the lowest
\* val_loss of all.
Inv_C26_BestCheckpoint ==
    Ran(trainer) =>
        /\ trainer.history = <<>> => trainer.best_metric = PlusInf
        /\ trainer.history # <<>> =>
              /\ ~trainer.best_metric.inf
              /\ \A k \in 1..Len(trainer.history) :
                    trainer.best_metric.v <= trainer.history[k]
              /\ \E k \in 1..Len(trainer.history) :
                    trainer.best_metric.v = trainer.history[k]
        /\ trainer.saved_at = RecordEpochs(trainer.history)
        /\ trainer.finished =>
              trainer.files[BestPath(trainer.variant)] =
                  Given([model_state |-> EarliestBest(trainer.history)])

\* training ended after the lowest val_loss was reached twice, the second
\* time in the last epoch, with a worse epoch before the first
Witness_C26 ==
    /\ Ran(trainer) /\ trainer.finished
    /\ Len(trainer.history) >= 3
    /\ trainer.history[1] > trainer.history[2]
    /\ trainer.history[Len(trainer.history)] = trainer.history[2]
    /\ EarliestBest(trainer.history) = 2

\* ---------------------------------------------------------------------------
\* The model facade's optimizer (BaseModel.__init__, DistanceEstimatorModel
\* .load_model, the batch loop of BaseModel.train).  A module object is an
\* identifier; its parameters are summarised by one number that an optimizer
\* step changes.
\* ---------------------------------------------------------------------------
MaxLoads == 2

MaxTrainSteps == 3

\* the parameter values found in the checkpoint files loaded
CheckpointWeights == {10, 20, 30}

ModuleIds == 1..(MaxLoads + 1)

\* DistanceEstimatorModel(estimator_cls, ...): self.model is the estimator,
\* self.optimizer = optimizer_cls(self.model.parameters(), lr=1e-3)
ConstructFacade ==
    /\ optim = NotRun
    /\ optim' = [op |-> "DistanceEstimatorModel", model |-> 1,
                 optimizer_params |-> 1,
                 weights |-> [m \in ModuleIds |-> IF m = 1 THEN Given(0) ELSE Absent],
                 loads |-> 0, steps |-> 0,
                 loaded_weights |-> Absent, steps_since_load |-> 0]
    /\ UNCHANGED <<coreVars, elabel, dotfile, retry, binding, trainer, workers>>

\* load_model(path_ckpt): self.model = self.estimator_cls.load_model(ckpt),
\* a module built anew from the checkpoint
FacadeLoadModel ==
    /\ Ran(optim) /\ optim.loads < MaxLoads
    /\ \E w \in CheckpointWeights :
        LET new == optim.loads + 2 IN
        optim' = [optim EXCEPT !.model = new,
                               !.weights[new] = Given(w),
                               !.loads = @ + 1,
                               !.loaded_weights = Given(w),
                               !.steps_since_load = 0]
    /\ UNCHANGED <<coreVars, elabel, dotfile, retry, binding, trainer, workers>>

\* one batch of train(): zero_grad, loss = _compute_loss(batch) through
\* self.model, loss.backward(), optimizer.step().  The gradients are those
\* of self.model's parameters; the step changes the optimizer's parameters
\* that have a gradient.
TrainStep ==
    /\ Ran(optim) /\ optim.steps < MaxTrainSteps
    /\ optim' = [optim EXCEPT
          !.weights[optim.optimizer_params] =
              IF optim.optimizer_params = optim.model
              THEN Given(@[1] + 1) ELSE @,
          !.steps = @ + 1,
          !.steps_since_load = @ + 1]
    /\ UNCHANGED <<coreVars, elabel, dotfile, retry, binding, trainer, workers>>

NextOptim ==
    \/ ConstructFacade
    \/ FacadeLoadModel
    \/ TrainStep

SpecOptim == Init /\ [][NextOptim]_vars

\* C27: once load_model has replaced self.model, the optimizer's parameters
\* are those of the current self.model, and training steps made since then
\* have changed the loaded model's parameters.
Inv_C27_OptimizerFollowsModel ==
    (Ran(optim) /\ optim.loads > 0) =>
        /\ optim.optimizer_params = optim.model
        /\ optim.steps_since_load > 0 =>
              optim.weights[optim.model] # optim.loaded_weights

====
